---- MODULE Spec2Model ----
(***************************************************************************)
(* Model of the Nosyt WHOP automation pipeline: the Marketplace Client     *)
(* (WhopIntegration), the Batch Uploader (BatchUploader) and the Pricing   *)
(* Optimizer (AutoLauncher._optimize_product_prices).                      *)
(*                                                                         *)
(* The program is single threaded.  One loop iteration of an operation is  *)
(* one action; the order of the calls made inside an iteration is kept in  *)
(* the event trace of the running operation.                               *)
(***************************************************************************)
EXTENDS Integers, Sequences, FiniteSets, TLC

(***************************************************************************)
(* Bounds of the model.                                                    *)
(***************************************************************************)
MaxDocs == 2
MaxListings == 2
MaxRuns == 2
MaxPipelineDocs == 1

(***************************************************************************)
(* Program constants.                                                      *)
(***************************************************************************)
UploadDelay == 2
OptimizeDelay == 1
DefaultSuggestedPrice == 2997
CentsPerUnit == 100

VARIABLES
    store_exists,   \* the products directory exists
    store,          \* the Product Store: the *.json documents, in glob order
    listings,       \* the marketplace's listings of the company
    files,          \* deliverable files written under output/<id>/
    log,            \* the per-day action log of the Marketplace Client
    pc,             \* "idle", "upload" or "optimize"
    json_files,     \* upload: the documents enumerated by this invocation
    products,       \* optimize: the listing summaries returned by list_products
    idx,            \* position of the running loop
    results,        \* upload: the aggregate being built / last returned
    trace,          \* calls made by the running (or last) operation, in order
    runs,           \* number of operations started
    config,         \* AutoLauncher.config, as _load_config returned it
    credentials,    \* WHOP_API_KEY and WHOP_COMPANY_ID: "set", "empty" or "unset"
    generated_count,\* generation: products generated so far in this run
    report,         \* the last daily report written
    now             \* the hour of the day (datetime.now().hour)

\* The state of the orchestrator (AutoLauncher), which the Marketplace Client
\* and the Batch Uploader never touch.
orchestrator == <<config, credentials, generated_count, report, now>>

vars == <<store_exists, store, listings, files, log, pc, json_files, products,
          idx, results, trace, runs, config, credentials, generated_count,
          report, now>>

(***************************************************************************)
(* Product Documents.  A document is a JSON file; the fields below are the *)
(* ones the uploader and the client read.                                  *)
(*   readable    - open() and json.load() succeed                          *)
(*   type        - the 'type' key ("absent" when the key is missing)       *)
(*   price_kind  - suggested_price is an "int", is "absent", or is "null"  *)
(*   suggested_price - its value when price_kind = "int" (whole units)     *)
(*   parts       - the chapters (ebook) or templates (email_templates);    *)
(*                 "ok" has every key the renderer reads, "no_content"     *)
(*                 lacks the 'content' key                                 *)
(***************************************************************************)
Doc(r, t, k, p, parts) ==
    [readable |-> r, type |-> t, price_kind |-> k, suggested_price |-> p,
     parts |-> parts]

DocSet ==
    { Doc(FALSE, "absent", "absent", 0, <<>>),
      Doc(TRUE, "ebook", "int", 10, <<"ok", "ok">>),
      Doc(TRUE, "ebook", "int", 15, <<"ok", "no_content">>),
      Doc(TRUE, "notion_template", "int", 25, <<>>),
      Doc(TRUE, "digital_planner", "int", 20, <<>>),
      Doc(TRUE, "email_templates", "int", 6, <<"ok", "no_content">>),
      Doc(TRUE, "email_templates", "int", 3, <<"ok">>),
      Doc(TRUE, "ebook", "null", 0, <<"ok">>),
      Doc(TRUE, "absent", "absent", 0, <<>>) }

RECURSIVE SeqsUpTo(_, _)
SeqsUpTo(S, n) ==
    IF n = 0 THEN { <<>> }
    ELSE LET shorter == SeqsUpTo(S, n - 1)
         IN  shorter \cup { Append(s, x) : s \in shorter, x \in S }

(***************************************************************************)
(* Remote Listings, as the marketplace holds them.  The analytics counters *)
(* belong to the marketplace (revenue is in minor units and is 0 until a   *)
(* sale is made); has_title says whether the listing summary carries a     *)
(* 'title' key.                                                            *)
(***************************************************************************)
Listing(id, price, auto, title, views, purchases) ==
    [id |-> id, price |-> price, auto_generated |-> auto, has_title |-> title,
     views |-> views, purchases |-> purchases, revenue |-> 0]

(***************************************************************************)
(* Events of the trace and entries of the action log.  An event is one     *)
(* call (or one file written) of the running operation; a log entry's      *)
(* timestamp is the position in the trace of the call that wrote it.       *)
(***************************************************************************)
Ev(op, key, val, aux, res) ==
    [op |-> op, key |-> key, val |-> val, aux |-> aux, res |-> res]

LogEntry(at, action, status) ==
    [run |-> runs, timestamp |-> at, action |-> action, status |-> status]

HttpResponses == { "201", "200", "500", "transport" }

(***************************************************************************)
(* WhopIntegration._format_for_whop_api: the price sent is the document's  *)
(* suggested_price (2997 when the key is missing) times 100.  A null       *)
(* suggested_price makes the multiplication raise TypeError.               *)
(***************************************************************************)
FormatRaises(d) == d.price_kind = "null"

\* Faulty variant: the price is sent in whole units.
FormatPriceUnconverted(d) ==
    IF d.price_kind = "int" THEN d.suggested_price ELSE DefaultSuggestedPrice

FormatPrice(d) ==
    (IF d.price_kind = "int" THEN d.suggested_price ELSE DefaultSuggestedPrice)
        * CentsPerUnit

(***************************************************************************)
(* WhopIntegration.create_product for document d (number key of the run),  *)
(* when the marketplace answers resp and would assign id.  at is the       *)
(* position the call's first event takes in the trace.                     *)
(*   res      "listing", "null" or "raised"                                *)
(*   events   the request sent (if any) and the return of the call         *)
(*   entries  what _log_action appended                                    *)
(*   created  the listing the marketplace now holds (if any)               *)
(***************************************************************************)
CreateProduct(d, key, resp, id, at) ==
    IF FormatRaises(d)
    THEN [res |-> "raised", id |-> 0,
          events |-> << Ev("create_product", key, 0, 0, "raised") >>,
          entries |-> << >>, created |-> << >>]
    ELSE IF resp = "201"
    THEN [res |-> "listing", id |-> id,
          events |-> << Ev("post_product", key, FormatPrice(d), 0, resp),
                        Ev("create_product", key, id, 0, "listing") >>,
          entries |-> << LogEntry(at, "create_product", "success") >>,
          created |-> << Listing(id, FormatPrice(d), TRUE, TRUE, 0, 0) >>]
    ELSE [res |-> "null", id |-> 0,
          events |-> << Ev("post_product", key, FormatPrice(d), 0, resp),
                        Ev("create_product", key, 0, 0, "null") >>,
          entries |-> << LogEntry(at, "create_product", "error") >>,
          created |-> << >>]

(***************************************************************************)
(* BatchUploader._create_digital_files and the four _create_*_files: the   *)
(* files written under output/<id>/ for document d, in order, and whether  *)
(* the rendering raised.                                                   *)
(***************************************************************************)
Write(key, id, n, name) == Ev("write", key, id, n, name)

RECURSIVE EmailTemplateFiles(_, _, _, _)
EmailTemplateFiles(parts, key, id, i) ==
    IF i > Len(parts) THEN [raised |-> FALSE, events |-> << >>]
    ELSE IF parts[i] = "no_content"
    THEN [raised |-> TRUE, events |-> << Write(key, id, i, "template.html") >>]
    ELSE LET rest == EmailTemplateFiles(parts, key, id, i + 1)
         IN  [raised |-> rest.raised,
              events |-> << Write(key, id, i, "template.html"),
                            Write(key, id, i, "template.txt") >> \o rest.events]

CreateDigitalFiles(d, key, id) ==
    CASE d.type = "ebook" ->
           IF \E i \in 1..Len(d.parts) : d.parts[i] = "no_content"
           THEN [raised |-> TRUE, events |-> << >>]
           ELSE [raised |-> FALSE,
                 events |-> << Write(key, id, 0, "ebook.html"),
                               Write(key, id, 0, "ebook.txt"),
                               Write(key, id, 0, "ebook.md") >>]
      [] d.type = "notion_template" ->
           [raised |-> FALSE,
            events |-> << Write(key, id, 0, "notion_structure.json"),
                          Write(key, id, 0, "setup_instructions.md") >>]
      [] d.type = "digital_planner" ->
           [raised |-> FALSE,
            events |-> << Write(key, id, 0, "planner_layouts.json"),
                          Write(key, id, 0, "planner_instructions.md") >>]
      [] d.type = "email_templates" -> EmailTemplateFiles(d.parts, key, id, 1)
      [] OTHER -> [raised |-> FALSE, events |-> << >>]

FilesOf(events) ==
    { [dir |-> events[k].val, n |-> events[k].aux, name |-> events[k].res] :
        k \in { j \in 1..Len(events) : events[j].op = "write" } }

(***************************************************************************)
(* BatchUploader.upload_products_from_directory.                           *)
(***************************************************************************)
NoResults == [success |-> 0, failed |-> 0, products |-> << >>]

ProductEntry(key, id, status) == [doc |-> key, whop_id |-> id, status |-> status]

Sleep(delay) == Ev("sleep", 0, delay, 0, "")

\* The directory does not exist: zero counts are returned at once.
UploadMissingDirectory ==
    /\ pc = "idle"
    /\ ~store_exists
    /\ runs' = runs + 1
    /\ results' = NoResults
    /\ json_files' = << >>
    /\ trace' = << >>
    /\ idx' = 1
    /\ UNCHANGED <<store_exists, store, listings, files, log, pc, products>>

\* The directory exists: its *.json files are enumerated.
StartUpload ==
    /\ pc = "idle"
    /\ store_exists
    /\ runs' = runs + 1
    /\ pc' = "upload"
    /\ json_files' = store
    /\ results' = NoResults
    /\ trace' = << >>
    /\ idx' = 1
    /\ UNCHANGED <<store_exists, store, listings, files, log, products>>

\* The four ways the body of the loop can end for a document, number key of
\* this invocation: what each adds to the aggregate, the calls made, and what
\* is left in the marketplace and the action log.
\*   json.load raised: caught, counted as failed.
LoadRaised(key) ==
    [success |-> 0, failed |-> 1, products |-> << >>,
     events |-> << Ev("load", key, 0, 0, "raised") >>,
     entries |-> << >>, created |-> << >>]

\*   create_product raised: caught, counted as failed.
CreateRaised(c) ==
    [success |-> 0, failed |-> 1, products |-> << >>,
     events |-> c.events, entries |-> << >>, created |-> << >>]

\*   create_product returned a listing: counted as success, then rendered; a
\*   rendering that raises is caught and counted as failed too.
Created(c, r, key) ==
    [success |-> 1, failed |-> IF r.raised THEN 1 ELSE 0,
     products |-> << ProductEntry(key, c.id, "success") >>,
     events |-> c.events \o r.events \o
                (IF r.raised THEN << >> ELSE << Sleep(UploadDelay) >>),
     entries |-> c.entries, created |-> c.created]

\*   create_product returned None: counted as failed.
NotCreated(c, key) ==
    [success |-> 0, failed |-> 1,
     products |-> << ProductEntry(key, 0, "failed") >>,
     events |-> c.events \o << Sleep(UploadDelay) >>,
     entries |-> c.entries, created |-> << >>]

\* Faulty variant: a failed creation is requested a second time.
UploadDocumentRetrying(d, key, resp, id, at) ==
    LET c == CreateProduct(d, key, resp, id, at)
    IN  IF ~d.readable THEN LoadRaised(key)
        ELSE IF c.res = "raised" THEN CreateRaised(c)
        ELSE IF c.res = "listing"
        THEN Created(c, CreateDigitalFiles(d, key, c.id), key)
        ELSE [NotCreated(c, key) EXCEPT !.events = c.events \o @]

\* Faulty variant: an unreadable document is swallowed without being counted.
UploadDocumentUncounted(d, key, resp, id, at) ==
    LET c == CreateProduct(d, key, resp, id, at)
    IN  IF ~d.readable THEN [LoadRaised(key) EXCEPT !.failed = 0]
        ELSE IF c.res = "raised" THEN CreateRaised(c)
        ELSE IF c.res = "listing"
        THEN Created(c, CreateDigitalFiles(d, key, c.id), key)
        ELSE NotCreated(c, key)

\* Faulty variant: deliverables are rendered whether or not a listing was
\* created.
UploadDocumentRendering(d, key, resp, id, at) ==
    LET c == CreateProduct(d, key, resp, id, at)
    IN  IF ~d.readable THEN LoadRaised(key)
        ELSE IF c.res = "raised" THEN CreateRaised(c)
        ELSE IF c.res = "listing"
        THEN Created(c, CreateDigitalFiles(d, key, c.id), key)
        ELSE [NotCreated(c, key) EXCEPT
                !.events = c.events \o CreateDigitalFiles(d, key, id).events
                           \o << Sleep(UploadDelay) >>]

\* The body of the loop for document d.
UploadDocument(d, key, resp, id, at) ==
    LET c == CreateProduct(d, key, resp, id, at)
    IN  IF ~d.readable THEN LoadRaised(key)
        ELSE IF c.res = "raised" THEN CreateRaised(c)
        ELSE IF c.res = "listing"
        THEN Created(c, CreateDigitalFiles(d, key, c.id), key)
        ELSE NotCreated(c, key)

\* One iteration of the loop over json_files.
UploadStep ==
    /\ pc = "upload"
    /\ idx <= Len(json_files)
    /\ \E resp \in HttpResponses :
         LET u == UploadDocument(json_files[idx], idx, resp,
                                 Len(listings) + 1, Len(trace) + 1)
         IN  /\ results' = [success |-> results.success + u.success,
                            failed |-> results.failed + u.failed,
                            products |-> results.products \o u.products]
             /\ trace' = trace \o u.events
             /\ listings' = listings \o u.created
             /\ files' = files \cup FilesOf(u.events)
             /\ log' = log \o u.entries
    /\ idx' = idx + 1
    /\ UNCHANGED <<store_exists, store, pc, json_files, products, runs>>

\* Faulty variant: the documents of the run are removed from the store.
FinishUploadClearing ==
    /\ pc = "upload"
    /\ idx > Len(json_files)
    /\ pc' = "idle"
    /\ store' = << >>
    /\ UNCHANGED <<store_exists, listings, files, log, json_files,
                   products, idx, results, trace, runs>>

\* The loop is over: the aggregate is returned.
FinishUpload ==
    /\ pc = "upload"
    /\ idx > Len(json_files)
    /\ pc' = "idle"
    /\ UNCHANGED <<store_exists, store, listings, files, log, json_files,
                   products, idx, results, trace, runs>>

(***************************************************************************)
(* WhopIntegration.list_products, get_product_analytics and                *)
(* update_product_pricing, and AutoLauncher._optimize_product_prices.      *)
(***************************************************************************)

\* Faulty variant: the reduce rule starts at 100 views.
PriceRuleInclusive(views, purchases) ==
    IF views >= 100 /\ purchases < 5 THEN "reduce"
    ELSE IF views > 50 /\ purchases > 10
         THEN IF 10 * purchases > views THEN "increase" ELSE "none"
         ELSE "none"

\* The rule of the optimizer, as the code nests it.  purchases / views > 0.1
\* is decided in doubles; for integer counters it is 10 * purchases > views.
PriceRule(views, purchases) ==
    IF views > 100 /\ purchases < 5 THEN "reduce"
    ELSE IF views > 50 /\ purchases > 10
         THEN IF 10 * purchases > views THEN "increase" ELSE "none"
         ELSE "none"

\* Faulty variant: the reduced price is rounded up.
ReducedPriceCeiling(current_price) == (current_price * 8 + 9) \div 10

\* Faulty variant: the reduced price is rounded to the nearest unit.
ReducedPriceRounded(current_price) == (current_price * 8 + 5) \div 10

\* int(current_price * 0.8) and int(current_price * 1.2).  The double
\* product, truncated, equals the exact quotient for every price of the
\* model (and for every price below 3,000,000).
ReducedPrice(current_price) == (current_price * 8) \div 10

IncreasedPrice(current_price) == (current_price * 12) \div 10

\* The outcomes of the body of the loop for product p of the list.
\*   not marked auto_generated: nothing is done.
NotConsidered(p) ==
    [events |-> << >>, entries |-> << >>, raised |-> FALSE,
     updated |-> FALSE, new_price |-> p.price]

\*   no analytics, or no rule applies: only the pause.
Unchanged(p, get) ==
    [events |-> << get, Sleep(OptimizeDelay) >>, entries |-> << >>,
     raised |-> FALSE, updated |-> FALSE, new_price |-> p.price]

\*   a rule applies: update_product_pricing is called, which logs when the
\*   marketplace answers 200; the message that follows reads product['title']
\*   and raises KeyError when the key is missing.
Repriced(p, get, new_price, upd, at) ==
    [events |-> << get,
                   Ev("update_product_pricing", p.id, new_price, p.price, upd) >>
                \o (IF p.has_title THEN << Sleep(OptimizeDelay) >> ELSE << >>),
     entries |-> IF upd = "200"
                 THEN << LogEntry(at + 1, "update_price", "success") >>
                 ELSE << >>,
     raised |-> ~p.has_title,
     updated |-> upd = "200", new_price |-> new_price]

GetAnalytics(p, l, fetch) ==
    Ev("get_product_analytics", p.id,
       IF fetch = "200" THEN l.views ELSE 0,
       IF fetch = "200" THEN l.purchases ELSE 0, fetch)

NewPrice(p, l) ==
    IF PriceRule(l.views, l.purchases) = "reduce" THEN ReducedPrice(p.price)
    ELSE IncreasedPrice(p.price)

\* Faulty variant: missing analytics are read without the `if analytics:`
\* guard, which raises.
OptimizeListedUnguarded(p, l, fetch, upd, at) ==
    IF fetch # "200"
    THEN [events |-> << GetAnalytics(p, l, fetch) >>, entries |-> << >>,
          raised |-> TRUE, updated |-> FALSE, new_price |-> p.price]
    ELSE IF PriceRule(l.views, l.purchases) = "none"
    THEN Unchanged(p, GetAnalytics(p, l, fetch))
    ELSE Repriced(p, GetAnalytics(p, l, fetch), NewPrice(p, l), upd, at)

\* The body of the loop for a product marked auto_generated, whose analytics
\* the marketplace holds in listing l, when the analytics request is answered
\* fetch and the price update upd.
OptimizeListed(p, l, fetch, upd, at) ==
    IF fetch # "200" \/ PriceRule(l.views, l.purchases) = "none"
    THEN Unchanged(p, GetAnalytics(p, l, fetch))
    ELSE Repriced(p, GetAnalytics(p, l, fetch), NewPrice(p, l), upd, at)

\* Faulty variant: the auto_generated marker is not looked at.
OptimizeProductUnfiltered(p, l, fetch, upd, at) ==
    OptimizeListed(p, l, fetch, upd, at)

\* The body of the loop for product p of the list.
OptimizeProduct(p, l, fetch, upd, at) ==
    IF ~p.auto_generated THEN NotConsidered(p)
    ELSE OptimizeListed(p, l, fetch, upd, at)

\* list_products: the listings of the company, or [] when the call fails.
StartOptimize ==
    /\ pc = "idle"
    /\ runs' = runs + 1
    /\ pc' = "optimize"
    /\ \E resp \in { "200", "500" } :
         /\ products' = IF resp = "200" THEN listings ELSE << >>
         /\ trace' = << Ev("list_products", 0, 0, 0, resp) >>
    /\ idx' = 1
    /\ UNCHANGED <<store_exists, store, listings, files, log, json_files,
                   results>>

\* Faulty variant: an exception raised in the body is caught inside the
\* loop, which goes on with the next product.
OptimizeStepIsolating ==
    /\ pc = "optimize"
    /\ idx <= Len(products)
    /\ \E fetch \in { "200", "500" }, upd \in { "200", "500" } :
         LET p == products[idx]
             o == OptimizeProduct(p, listings[p.id], fetch, upd,
                                  Len(trace) + 1)
         IN  /\ trace' = trace \o o.events
             /\ log' = log \o o.entries
             /\ listings' = IF o.updated
                            THEN [listings EXCEPT ![p.id].price = o.new_price]
                            ELSE listings
             /\ pc' = "optimize"
    /\ idx' = idx + 1
    /\ UNCHANGED <<store_exists, store, files, json_files, products, results,
                   runs>>

\* One iteration of the loop over products.  An exception raised in the
\* body is caught outside the loop and ends the run.
OptimizeStep ==
    /\ pc = "optimize"
    /\ idx <= Len(products)
    /\ \E fetch \in { "200", "500" }, upd \in { "200", "500" } :
         LET p == products[idx]
             o == OptimizeProduct(p, listings[p.id], fetch, upd,
                                  Len(trace) + 1)
         IN  /\ trace' = trace \o o.events
             /\ log' = log \o o.entries
             /\ listings' = IF o.updated
                            THEN [listings EXCEPT ![p.id].price = o.new_price]
                            ELSE listings
             /\ pc' = IF o.raised THEN "idle" ELSE "optimize"
    /\ idx' = idx + 1
    /\ UNCHANGED <<store_exists, store, files, json_files, products, results,
                   runs>>

FinishOptimize ==
    /\ pc = "optimize"
    /\ idx > Len(products)
    /\ pc' = "idle"
    /\ UNCHANGED <<store_exists, store, listings, files, log, json_files,
                   products, idx, results, trace, runs>>

(***************************************************************************)
(* The marketplace's customers: the analytics counters of a listing move   *)
(* outside the program's control.                                          *)
(***************************************************************************)
TrafficSet == { <<150, 2>>, <<60, 15>> }

Traffic ==
    /\ pc = "idle"
    /\ \E i \in 1..Len(listings), t \in TrafficSet :
         /\ listings[i].views = 0
         /\ listings' = [listings EXCEPT ![i].views = t[1],
                                         ![i].purchases = t[2]]
    /\ UNCHANGED <<store_exists, store, files, log, pc, json_files, products,
                   idx, results, trace, runs>>

(***************************************************************************)
(* Initial states.                                                         *)
(***************************************************************************)
AnalyticsSet ==
    { <<10, 1>>, <<150, 2>>, <<60, 15>>, <<101, 4>>, <<100, 4>>, <<101, 5>>,
      <<51, 11>>, <<110, 11>>, <<50, 11>>, <<51, 10>>, <<150, 20>> }

ListingSet ==
    { Listing(0, 1000, TRUE, TRUE, a[1], a[2]) : a \in AnalyticsSet }
    \cup { Listing(0, 1000, FALSE, TRUE, 150, 2),
           Listing(0, 999, FALSE, TRUE, 60, 15),
           Listing(0, 999, TRUE, FALSE, 150, 2),
           Listing(0, 999, TRUE, TRUE, 60, 15),
           Listing(0, 4, TRUE, TRUE, 150, 20) }

\* The marketplace numbers the listings of the company.
Numbered(ls) == [i \in 1..Len(ls) |-> [ls[i] EXCEPT !.id = i]]

PipelineDocs ==
    { Doc(TRUE, "ebook", "int", 10, <<"ok", "ok">>),
      Doc(TRUE, "absent", "absent", 0, <<>>) }

\* AutoLauncher._load_config: the defaults, overridden by the options the
\* user's configuration file gives.
ConfigKeys == { "auto_generate", "auto_upload", "price_optimization" }

UserConfigs == UNION { [keys -> BOOLEAN] : keys \in SUBSET ConfigKeys }

LoadConfig(user_config) ==
    [k \in ConfigKeys |->
       IF k \in DOMAIN user_config THEN user_config[k] ELSE TRUE]

NoReport ==
    [written |-> FALSE, total_products |-> 0, total_sales |-> 0,
     total_revenue |-> <<0, 1>>, average_price |-> <<0, 1>>]

InitOrchestrator ==
    /\ config = LoadConfig(<< >>)
    /\ credentials = [api_key |-> "set", company_id |-> "set"]
    /\ generated_count = 0
    /\ report = NoReport
    /\ now = 0

InitProgram ==
    /\ files = { }
    /\ log = << >>
    /\ pc = "idle"
    /\ json_files = << >>
    /\ products = << >>
    /\ idx = 1
    /\ results = NoResults
    /\ trace = << >>
    /\ runs = 0

\* The pipeline: a store of generated documents, an account with at most
\* one listing made by hand.
Init ==
    /\ store_exists = TRUE
    /\ store \in SeqsUpTo(PipelineDocs, MaxPipelineDocs) \ { << >> }
    /\ listings \in { << >>, << Listing(1, 1000, FALSE, TRUE, 150, 2) >> }
    /\ InitProgram
    /\ InitOrchestrator

Next ==
    \/ runs < MaxRuns /\ StartUpload /\ UNCHANGED orchestrator
    \/ UploadStep /\ UNCHANGED orchestrator
    \/ FinishUpload /\ UNCHANGED orchestrator
    \/ runs < MaxRuns /\ StartOptimize /\ UNCHANGED orchestrator
    \/ OptimizeStep /\ UNCHANGED orchestrator
    \/ FinishOptimize /\ UNCHANGED orchestrator
    \/ Traffic /\ UNCHANGED orchestrator

Spec == Init /\ [][Next]_vars

\* One invocation of upload_products_from_directory over any store.
InitUpload ==
    /\ store_exists \in BOOLEAN
    /\ store \in IF store_exists THEN SeqsUpTo(DocSet, MaxDocs) ELSE { << >> }
    /\ listings = << >>
    /\ InitProgram
    /\ InitOrchestrator

NextUpload ==
    \/ runs = 0 /\ UploadMissingDirectory /\ UNCHANGED orchestrator
    \/ runs = 0 /\ StartUpload /\ UNCHANGED orchestrator
    \/ UploadStep /\ UNCHANGED orchestrator
    \/ FinishUpload /\ UNCHANGED orchestrator

SpecUpload == InitUpload /\ [][NextUpload]_vars

\* One invocation of _optimize_product_prices over any account.
InitPrice ==
    /\ store_exists = TRUE
    /\ store = << >>
    /\ listings \in { Numbered(ls) : ls \in SeqsUpTo(ListingSet, MaxListings) }
    /\ InitProgram
    /\ InitOrchestrator

NextPrice ==
    \/ runs = 0 /\ StartOptimize /\ UNCHANGED orchestrator
    \/ OptimizeStep /\ UNCHANGED orchestrator
    \/ FinishOptimize /\ UNCHANGED orchestrator

SpecPrice == InitPrice /\ [][NextPrice]_vars

(***************************************************************************)
(* Properties.                                                             *)
(***************************************************************************)
Positions == 1..Len(trace)

Calls(op, key) == { k \in Positions : trace[k].op = op /\ trace[k].key = key }

CreateReturns(res) ==
    { k \in Positions : trace[k].op = "create_product" /\ trace[k].res = res }

UploadReturned == pc = "idle" /\ runs = 1 /\ store_exists

\* C1: a batch upload over K documents of which F fail creation
\* (create_product returns null) and the other K - F are created returns
\* success = K - F, failed = F and a products list of exactly K entries.
C1_BatchCounts ==
    LET K == Len(json_files)
        F == Cardinality(CreateReturns("null"))
    IN  (UploadReturned /\ Cardinality(CreateReturns("listing")) = K - F)
        => /\ results.success = K - F
           /\ results.failed = F
           /\ Len(results.products) = K

\* C2: within one invocation create_product is called at most once per
\* document and exactly once per readable document already passed by the loop
\* (no request is ever repeated), and when the invocation returns every
\* enumerated document has been attempted, whatever happened to the others.
C2_EachDocumentAttemptedOnce ==
    /\ \A key \in 1..Len(json_files) :
         /\ Cardinality(Calls("create_product", key)) <= 1
         /\ Cardinality(Calls("post_product", key)) <= 1
         /\ Cardinality(Calls("load", key)) <= 1
         /\ (pc = "upload" /\ key < idx /\ json_files[key].readable)
              => Cardinality(Calls("create_product", key)) = 1
    /\ UploadReturned =>
         \A key \in 1..Len(json_files) :
           Cardinality(Calls("create_product", key))
             = IF json_files[key].readable THEN 1 ELSE 0

C2_Witness ==
    /\ UploadReturned
    /\ Len(json_files) = 2
    /\ \E k \in CreateReturns("null") : trace[k].key = 1
    /\ \E k \in CreateReturns("listing") : trace[k].key = 2

\* C3: the iteration that meets an unreadable document adds one to failed
\* and nothing to success or to the products list, makes no create_product
\* call, writes no file, creates no listing, and leaves the loop running at
\* the next document.
C3_UnreadableCountedAndSkipped ==
    [][ (pc = "upload" /\ idx <= Len(json_files) /\ ~json_files[idx].readable)
        => /\ results'.failed = results.failed + 1
           /\ results'.success = results.success
           /\ results'.products = results.products
           /\ \A k \in Len(trace) + 1 .. Len(trace') :
                trace'[k].op \notin { "create_product", "post_product", "write" }
           /\ files' = files
           /\ listings' = listings
           /\ pc' = "upload"
           /\ idx' = idx + 1 ]_vars

C3_Witness ==
    /\ UploadReturned
    /\ Len(json_files) = 2
    /\ ~json_files[1].readable
    /\ results.failed = 1
    /\ \E k \in CreateReturns("listing") : trace[k].key = 2

\* C4: a deliverable file is written for a document only after create_product
\* returned a listing for that document, and only under the directory of that
\* listing's id; a document whose creation failed or raised, or which could
\* not be read, gets no file.
C4_FilesOnlyForCreatedListings ==
    /\ \A j \in Positions :
         trace[j].op = "write" =>
           \E i \in 1..(j - 1) :
             /\ trace[i].op = "create_product"
             /\ trace[i].res = "listing"
             /\ trace[i].key = trace[j].key
             /\ trace[i].val = trace[j].val
    /\ \A f \in files :
         /\ f.dir \in 1..Len(listings)
         /\ listings[f.dir].auto_generated

C4_Witness ==
    /\ UploadReturned
    /\ \E k \in CreateReturns("null") : trace[k].key = 1
    /\ \E j \in Positions :
         trace[j].op = "write" /\ trace[j].key = 2 /\ trace[j].val = 1
    /\ [dir |-> 1, n |-> 0, name |-> "ebook.md"] \in files

\* C10: create_product returns null and appends an error entry to the action
\* log on any non-2xx response or transport exception, and never raises to
\* its caller.
C10_CreateProductNeverRaises ==
    \A k \in Positions :
      /\ (trace[k].op = "create_product") => trace[k].res # "raised"
      /\ (trace[k].op = "post_product" /\ trace[k].res \in { "500", "transport" })
           => /\ trace[k + 1].op = "create_product"
              /\ trace[k + 1].res = "null"
              /\ \E e \in 1..Len(log) :
                   /\ log[e].timestamp = k
                   /\ log[e].action = "create_product"
                   /\ log[e].status = "error"

\* The products of the list that were marked auto_generated, by id.
Considered(id) ==
    \E i \in 1..Len(products) :
      products[i].id = id /\ products[i].auto_generated

Listed(id) == CHOOSE p \in { products[i] : i \in 1..Len(products) } : p.id = id

AnalyticsReturned ==
    { k \in Positions :
        trace[k].op = "get_product_analytics" /\ trace[k].res = "200" }

PriceUpdates == { k \in Positions : trace[k].op = "update_product_pricing" }

UpdateFollows(k) ==
    /\ k + 1 \in PriceUpdates
    /\ trace[k + 1].key = trace[k].key

ReduceApplies(views, purchases) == views > 100 /\ purchases < 5

IncreaseApplies(views, purchases) ==
    /\ ~ReduceApplies(views, purchases)
    /\ views > 50 /\ purchases > 10 /\ 10 * purchases > views

\* C5: for every listing whose analytics were returned exactly one of reduce,
\* increase and no change is applied, chosen in the documented order: reduce
\* if views > 100 and purchases < 5, else increase if views > 50 and
\* purchases > 10 and purchases/views > 0.10, else no change; in the
\* no-change case update_product_pricing is not called for the listing.
C5_RuleDeterministicAndTotal ==
    \A k \in AnalyticsReturned :
      LET views == trace[k].val
          purchases == trace[k].aux
          sent == trace[k + 1].val
          current_price == trace[k + 1].aux
      IN  /\ ReduceApplies(views, purchases) =>
               /\ UpdateFollows(k)
               /\ sent <= current_price
               /\ current_price > 0 => sent < current_price
          /\ IncreaseApplies(views, purchases) =>
               /\ UpdateFollows(k)
               /\ sent >= current_price
               /\ current_price >= 5 => sent > current_price
          /\ (~ReduceApplies(views, purchases)
                /\ ~IncreaseApplies(views, purchases)) =>
               /\ ~UpdateFollows(k)
               /\ \A j \in PriceUpdates : trace[j].key # trace[k].key
          /\ Cardinality({ j \in PriceUpdates : trace[j].key = trace[k].key })
               <= 1

C5_Witness ==
    /\ pc = "idle" /\ runs = 1
    /\ \E k \in AnalyticsReturned :
         /\ trace[k].val = 10 /\ trace[k].aux = 1
         /\ ~UpdateFollows(k)
    /\ \E k \in AnalyticsReturned :
         /\ trace[k].val = 150 /\ trace[k].aux = 20
         /\ UpdateFollows(k)

\* C6: the price sent to update_product_pricing is floor(current_price * 0.8)
\* when the reduce rule applies and floor(current_price * 1.2) when the
\* increase rule applies, current_price being the listed price in minor
\* units; 1000 gives 800 and 1200; an update the marketplace accepts becomes
\* the listing's price.
C6_NewPriceIsFloor ==
    \A k \in AnalyticsReturned :
      UpdateFollows(k) =>
        LET views == trace[k].val
            purchases == trace[k].aux
            sent == trace[k + 1].val
            current_price == trace[k + 1].aux
            factor == IF ReduceApplies(views, purchases) THEN 8 ELSE 12
        IN  /\ current_price = Listed(trace[k].key).price
            /\ 10 * sent <= factor * current_price
            /\ factor * current_price < 10 * (sent + 1)
            /\ (views = 150 /\ purchases = 2 /\ current_price = 1000)
                 => sent = 800
            /\ (views = 60 /\ purchases = 15 /\ current_price = 1000)
                 => sent = 1200
            /\ trace[k + 1].res = "200" => listings[trace[k].key].price = sent

C6_Witness ==
    /\ \E k \in PriceUpdates :
         /\ trace[k - 1].val = 150 /\ trace[k - 1].aux = 2
         /\ trace[k].aux = 999 /\ trace[k].val = 799
    /\ \E k \in PriceUpdates :
         /\ trace[k - 1].val = 60 /\ trace[k - 1].aux = 15
         /\ trace[k].aux = 1000 /\ trace[k].val = 1200
         /\ listings[trace[k].key].price = 1200

\* C7: no analytics request and no price update is ever issued for a listing
\* that is not marked auto_generated, whatever its analytics are.
C7_OnlyAutoGeneratedConsidered ==
    \A k \in Positions :
      trace[k].op \in { "get_product_analytics", "update_product_pricing" }
        => Considered(trace[k].key)

C7_Witness ==
    /\ pc = "idle" /\ runs = 1 /\ idx = 3
    /\ ~products[1].auto_generated
    /\ ReduceApplies(listings[1].views, listings[1].purchases)
    /\ listings[1].price = products[1].price
    /\ \E k \in PriceUpdates : trace[k].key = 2

\* C8: the iteration in which get_product_analytics returns nothing changes
\* no price, writes no log entry, raises nothing and leaves the loop running
\* at the next listing.
C8_NoAnalyticsSkipped ==
    [][ (/\ Len(trace') > Len(trace)
         /\ trace'[Len(trace) + 1].op = "get_product_analytics"
         /\ trace'[Len(trace) + 1].res # "200")
        => /\ listings' = listings
           /\ log' = log
           /\ \A k \in Len(trace) + 1 .. Len(trace') :
                trace'[k].op # "update_product_pricing"
           /\ pc' = "optimize"
           /\ idx' = idx + 1 ]_vars

C8_Witness ==
    \E k \in Positions, j \in PriceUpdates :
      /\ trace[k].op = "get_product_analytics"
      /\ trace[k].res = "500"
      /\ ReduceApplies(listings[trace[k].key].views,
                       listings[trace[k].key].purchases)
      /\ k < j
      /\ trace[j].key > trace[k].key

\* C9: prices reach the marketplace in minor units, converted once: the price
\* create_product sends for a document is its suggested_price times 100, and
\* every price the optimizer sends later is derived from the listing's
\* listed price (minor units) by the 0.8 or 1.2 factor alone.
C9_ConvertedExactlyOnce ==
    /\ \A k \in Positions :
         (trace[k].op = "post_product"
            /\ json_files[trace[k].key].price_kind = "int")
           => trace[k].val = 100 * json_files[trace[k].key].suggested_price
    /\ \A k \in PriceUpdates :
         /\ trace[k].aux = Listed(trace[k].key).price
         /\ 10 * trace[k].val <= 12 * trace[k].aux
         /\ 8 * trace[k].aux < 10 * (trace[k].val + 1)
    /\ \A k \in CreateReturns("listing") :
         listings[trace[k].val].price = trace[k - 1].val

C9_Witness ==
    /\ \E d \in 1..Len(store) : store[d].suggested_price = 10
    /\ \E k \in PriceUpdates :
         /\ trace[k].aux = 1000 /\ trace[k].val = 800 /\ trace[k].res = "200"
         /\ listings[trace[k].key].auto_generated
         /\ listings[trace[k].key].price = 800

\* ---------------------------------------------------------------------
\* AutoLauncher.run_daily_automation: one daily cycle.  Each stage is one
\* call; what the Batch Uploader and the price optimisation do inside their
\* call is specified by SpecUpload and SpecPrice.

\* AutoLauncher.daily_targets, and the number of products a cycle asks for.
DailyTargets ==
    << [type |-> "ebooks", count |-> 2],
       [type |-> "templates", count |-> 3],
       [type |-> "planners", count |-> 1],
       [type |-> "email_templates", count |-> 1] >>

RECURSIVE TargetsUpTo(_)
TargetsUpTo(n) ==
    IF n = 0 THEN 0 ELSE TargetsUpTo(n - 1) + DailyTargets[n].count

DailyQuota == TargetsUpTo(Len(DailyTargets))

StartDaily ==
    /\ pc = "idle"
    /\ pc' = "daily_generate"
    /\ trace' = << >>
    /\ runs' = runs + 1
    /\ generated_count' = 0
    /\ UNCHANGED <<store_exists, store, listings, files, log, json_files,
                   products, idx, results, config, credentials, report, now>>

\* What a stage of the cycle leaves alone.
StageFrame ==
    UNCHANGED <<store_exists, store, listings, files, log, json_files,
                products, idx, results, runs, config, credentials, report, now>>

\* A stage whose option is off is passed over.
PassOver(next) ==
    /\ pc' = next
    /\ UNCHANGED <<trace, generated_count>>

\* _generate_daily_products handles every failure itself and returns the
\* number of products it generated.
DailyGenerate ==
    /\ pc = "daily_generate"
    /\ IF config["auto_generate"]
         THEN \E n \in 0..DailyQuota :
                /\ generated_count' = n
                /\ trace' = Append(trace,
                       Ev("_generate_daily_products", 0, n, 0, "returned"))
                /\ pc' = "daily_upload"
         ELSE PassOver("daily_upload")
    /\ StageFrame

\* The stage ignores its option.
DailyUploadUngated ==
    /\ pc = "daily_upload"
    /\ trace' = Append(trace,
           Ev("_upload_pending_products", 0, 0, 0, "returned"))
    /\ pc' = "daily_optimize"
    /\ UNCHANGED generated_count
    /\ StageFrame

\* _upload_pending_products has no handler of its own: what
\* upload_products_from_directory raises outside its per-file handler (its
\* progress messages, the enumeration of the store) reaches the handler of
\* the cycle, which logs the failure and ends the cycle.
DailyUpload ==
    /\ pc = "daily_upload"
    /\ IF config["auto_upload"]
         THEN \/ /\ trace' = Append(trace,
                        Ev("_upload_pending_products", 0, 0, 0, "returned"))
                 /\ pc' = "daily_optimize"
                 /\ UNCHANGED generated_count
              \/ /\ trace' = trace \o
                      << Ev("_upload_pending_products", 0, 0, 0, "raised"),
                         Ev("logger.error", 0, 0, 0,
                            "Daily automation failed") >>
                 /\ pc' = "idle"
                 /\ UNCHANGED generated_count
         ELSE PassOver("daily_optimize")
    /\ StageFrame

\* _optimize_product_prices handles every failure itself.
DailyOptimize ==
    /\ pc = "daily_optimize"
    /\ IF config["price_optimization"]
         THEN \E outcome \in { "returned", "failed" } :
                /\ trace' = Append(trace,
                       Ev("_optimize_product_prices", 0, 0, 0, outcome))
                /\ pc' = "daily_report"
                /\ UNCHANGED generated_count
         ELSE PassOver("daily_report")
    /\ StageFrame

\* _generate_daily_report is not governed by an option and handles every
\* failure itself; the cycle then logs its completion.
DailyReport ==
    /\ pc = "daily_report"
    /\ \E outcome \in { "returned", "failed" } :
         trace' = trace \o
           << Ev("_generate_daily_report", 0, 0, 0, outcome),
              Ev("logger.info", 0, 0, 0, "completed") >>
    /\ pc' = "idle"
    /\ UNCHANGED generated_count
    /\ StageFrame

InitDaily ==
    /\ InitProgram
    /\ store_exists = TRUE
    /\ store = << >>
    /\ listings = << >>
    /\ \E user_config \in UserConfigs : config = LoadConfig(user_config)
    /\ credentials = [api_key |-> "set", company_id |-> "set"]
    /\ generated_count = 0
    /\ report = NoReport
    /\ now = 0

NextDaily ==
    \/ runs < MaxRuns /\ StartDaily
    \/ DailyGenerate
    \/ DailyUpload
    \/ DailyOptimize
    \/ DailyReport

SpecDaily == InitDaily /\ [][NextDaily]_vars

\* ---------------------------------------------------------------------
\* AutoLauncher.run_continuous: the schedules, the initial cycle and the poll
\* loop.  What the scheduled jobs do is specified by SpecDaily, SpecUpload
\* and SpecPrice; here a poll either returns or lets an exception escape.

PollInterval == 60
Cooldown == 300
MaxEvents == 12

\* Lines 249-266: the schedules are registered and the initial cycle runs
\* before the loop is entered.
StartContinuous ==
    /\ pc = "idle"
    /\ runs = 0
    /\ runs' = 1
    /\ trace' = << Ev("run_daily_automation", 0, 0, 0, "returned") >>
    /\ pc' = "run_pending"
    /\ UNCHANGED <<store_exists, store, listings, files, log, json_files,
                   products, idx, results, orchestrator>>

\* What the poll loop leaves alone.
LoopFrame ==
    UNCHANGED <<store_exists, store, listings, files, log, json_files,
                products, idx, results, runs, orchestrator>>

\* The loop ends when a poll lets an exception escape.
RunPendingBreaking ==
    /\ pc = "run_pending"
    /\ Len(trace) < MaxEvents
    /\ \/ /\ trace' = Append(trace,
                 Ev("schedule.run_pending", 0, 0, 0, "returned"))
          /\ pc' = "poll_sleep"
       \/ /\ trace' = trace \o
               << Ev("schedule.run_pending", 0, 0, 0, "raised"),
                  Ev("logger.error", 0, 0, 0, "Automation error") >>
          /\ pc' = "returned"
    /\ LoopFrame

\* Line 271: schedule.run_pending() runs the jobs that are due.  A job's
\* exception escapes it (the upload job has no handler); the handler at
\* lines 276-277 logs it and control is then at the cooldown.
RunPending ==
    /\ pc = "run_pending"
    /\ Len(trace) < MaxEvents
    /\ \/ /\ trace' = Append(trace,
                 Ev("schedule.run_pending", 0, 0, 0, "returned"))
          /\ pc' = "poll_sleep"
       \/ /\ trace' = trace \o
               << Ev("schedule.run_pending", 0, 0, 0, "raised"),
                  Ev("logger.error", 0, 0, 0, "Automation error") >>
          /\ pc' = "cooldown"
    /\ LoopFrame

\* Line 272: the poll sleep, inside the try block.
PollSleep ==
    /\ pc = "poll_sleep"
    /\ trace' = Append(trace, Sleep(PollInterval))
    /\ pc' = "run_pending"
    /\ LoopFrame

\* Line 278: the cooldown, inside the handler of Exception.
CooldownSleep ==
    /\ pc = "cooldown"
    /\ trace' = Append(trace, Sleep(Cooldown))
    /\ pc' = "run_pending"
    /\ LoopFrame

\* The external interruption (KeyboardInterrupt), delivered wherever the
\* loop is.  Inside the try block (lines 271-272) the handler at lines
\* 273-275 logs the stop and breaks; inside the handler of Exception (lines
\* 277-278) no handler is in force and the interruption leaves
\* run_continuous as an exception.
Interrupt ==
    /\ pc \in { "run_pending", "poll_sleep", "cooldown" }
    /\ IF pc = "cooldown"
         THEN /\ trace' = Append(trace,
                     Ev("KeyboardInterrupt", 0, 0, 0, "cooldown"))
              /\ pc' = "raised"
         ELSE /\ trace' = trace \o
                   << Ev("KeyboardInterrupt", 0, 0, 0, pc),
                      Ev("logger.info", 0, 0, 0, "Automation stopped by user") >>
              /\ pc' = "returned"
    /\ LoopFrame

InitContinuous ==
    /\ InitProgram
    /\ InitOrchestrator
    /\ store_exists = TRUE
    /\ store = << >>
    /\ listings = << >>

NextContinuous ==
    \/ StartContinuous
    \/ RunPending
    \/ PollSleep
    \/ CooldownSleep
    \/ Interrupt

SpecContinuous == InitContinuous /\ [][NextContinuous]_vars

\* The interruptions delivered so far, and whether run_continuous has ended.
Interruptions == { k \in Positions : trace[k].op = "KeyboardInterrupt" }

LoopEnded == pc \in { "returned", "raised" }

IsEvent(k, op, val) ==
    k \in Positions /\ trace[k].op = op /\ trace[k].val = val

\* ---------------------------------------------------------------------
\* The Content Generator (AIProductGenerator) and the daily generation
\* (AutoLauncher._generate_daily_products).  Strings are sequences of
\* lower-case words.

\* AutoLauncher.profitable_niches: topic and category of each niche (the
\* audience only enters the prompts).
ProfitableNiches ==
    << [topic |-> << "social", "media", "marketing", "mastery" >>, category |-> "business"],
       [topic |-> << "dropshipping", "empire", "blueprint" >>, category |-> "business"],
       [topic |-> << "real", "estate", "investment", "guide" >>, category |-> "finance"],
       [topic |-> << "affiliate", "marketing", "secrets" >>, category |-> "business"],
       [topic |-> << "email", "marketing", "templates" >>, category |-> "marketing"],
       [topic |-> << "ultimate", "productivity", "planner" >>, category |-> "productivity"],
       [topic |-> << "digital", "detox", "challenge" >>, category |-> "wellness"],
       [topic |-> << "goal", "setting", "workbook" >>, category |-> "productivity"],
       [topic |-> << "time", "management", "mastery" >>, category |-> "productivity"],
       [topic |-> << "habit", "tracker", "templates" >>, category |-> "wellness"],
       [topic |-> << "30-day", "fitness", "planner" >>, category |-> "wellness"],
       [topic |-> << "meal", "prep", "made", "simple" >>, category |-> "wellness"],
       [topic |-> << "mental", "health", "journal" >>, category |-> "wellness"],
       [topic |-> << "stress", "management", "guide" >>, category |-> "wellness"],
       [topic |-> << "sleep", "optimization", "blueprint" >>, category |-> "wellness"],
       [topic |-> << "personal", "finance", "tracker" >>, category |-> "finance"],
       [topic |-> << "cryptocurrency", "basics" >>, category |-> "finance"],
       [topic |-> << "retirement", "planning", "guide" >>, category |-> "finance"],
       [topic |-> << "side", "hustle", "starter", "kit" >>, category |-> "business"],
       [topic |-> << "budgeting", "templates", "bundle" >>, category |-> "finance"] >>

TemplateTypes ==
    << << "productivity", "dashboard" >>, << "project", "tracker" >>,
       << "content", "calendar" >>, << "business", "planner" >> >>

Periods == << "daily", "weekly", "monthly" >>

EmailTemplateCount == 5
GenerationDelay == 2

\* What the text-generation service answers to one request: a usable answer,
\* an error, or (where the answer is parsed as JSON) an answer that does not
\* parse.
TextResponses == { "ok", "error" }

JsonResponses == { "ok", "error", "unparseable" }

\* The chapters of an outline and the answer to each chapter's request.
ChapterCounts == { 1, 6 }

ChapterResponses ==
    { [i \in 1..n |-> IF i = 1 THEN first ELSE "ok"] :
        n \in ChapterCounts, first \in TextResponses }

\* The answers to the requests of one email collection: the first failed
\* requests fail, the others succeed.
EmailResponses ==
    { [i \in 1..EmailTemplateCount |-> IF i <= failed THEN "error" ELSE "ok"] :
        failed \in 0..EmailTemplateCount }

\* A document the generator writes: the fields of Doc, and the keys the
\* client reads for the listing ("absent" when the document lacks the key).
Package(t, title, description, tags, price, parts) ==
    [readable |-> TRUE, type |-> t, price_kind |-> "int",
     suggested_price |-> price, parts |-> parts,
     title |-> title, description |-> description, tags |-> tags]

\* AIProductGenerator._calculate_price.
BasePrice(product_type) ==
    CASE product_type = "ebook" -> 15
      [] product_type = "notion_template" -> 25
      [] product_type = "planner" -> 20
      [] product_type = "email_templates" -> 3
      [] OTHER -> 20

CalculatePrice(product_type, quantity) ==
    IF product_type = "email_templates"
    THEN BasePrice(product_type) * quantity
    ELSE IF quantity > 5
    THEN (BasePrice(product_type) * 3) \div 2
    ELSE BasePrice(product_type)

\* AIProductGenerator._generate_tags: the first three tags of every category
\* one of whose words occurs in the content, then the generic tags; the
\* duplicates are dropped and ten of the tags are kept.  The set the code
\* builds has no defined order, so which ten are kept is not determined.
TagCategories ==
    << [words |-> { "business" },
        tags |-> << "business", "entrepreneur", "startup" >>],
       [words |-> { "productivity" },
        tags |-> << "productivity", "organization", "planning" >>],
       [words |-> { "health" },
        tags |-> << "health", "wellness", "fitness" >>],
       [words |-> { "finance" },
        tags |-> << "finance", "money", "investing" >>],
       [words |-> { "social", "media" },
        tags |-> << "social media", "content", "instagram" >>],
       [words |-> { "real", "estate" },
        tags |-> << "real estate", "property", "investing" >>] >>

GenericTags ==
    << "PLR", "MRR", "digital product", "template", "instant download" >>

MaxTags == 10

RangeOf(seq) == { seq[i] : i \in 1..Len(seq) }

RECURSIVE CategoryTags(_, _)
CategoryTags(content, n) ==
    IF n > Len(TagCategories) THEN << >>
    ELSE (IF TagCategories[n].words \cap RangeOf(content) # { }
            THEN TagCategories[n].tags
            ELSE << >>) \o CategoryTags(content, n + 1)

RECURSIVE Unique(_)
Unique(seq) ==
    IF seq = << >> THEN << >>
    ELSE LET front == Unique(SubSeq(seq, 1, Len(seq) - 1))
             last == seq[Len(seq)]
         IN  IF last \in RangeOf(front) THEN front ELSE Append(front, last)

GenerateTags(content) ==
    LET tags == CategoryTags(content, 1) \o GenericTags
        distinct == Unique(tags)
    IN  IF Len(distinct) <= MaxTags
        THEN { distinct }
        ELSE { SelectSeq(distinct, LAMBDA t : t \in kept) :
                 kept \in { T \in SUBSET RangeOf(distinct) :
                              Cardinality(T) = MaxTags } }

\* One request to the text-generation service, made during attempt k.
ServiceCall(k, step, response) == Ev("openai", k, 0, step, response)

WriteDocument(k, d) == Ev("write_document", k, 0, 0, d.type)

ServiceCalls(k, step, responses) ==
    [i \in 1..Len(responses) |-> ServiceCall(k, step, responses[i])]

\* AIProductGenerator.generate_ebook.  A failed outline request or an
\* outline that does not parse ends in the handler, which returns None.  A
\* failed chapter request leaves a placeholder text in the chapter
\* (_generate_chapter_content) and a failed description request a stock
\* description (_generate_description): the document is written all the same.
GenerateEbook(k, topic, outline, chapters, description, tags) ==
    IF outline # "ok"
    THEN [res |-> "null", written |-> << >>,
          events |-> << ServiceCall(k, "outline", outline) >>]
    ELSE LET d == Package("ebook", "outline.title",
                     IF description = "ok" THEN "generated" ELSE "stock",
                     tags, CalculatePrice("ebook", Len(chapters)),
                     [i \in 1..Len(chapters) |->
                        IF chapters[i] = "ok" THEN "ok" ELSE "placeholder"])
         IN  [res |-> "document", written |-> << d >>,
              events |-> << ServiceCall(k, "outline", outline) >>
                           \o ServiceCalls(k, "chapter", chapters)
                           \o << ServiceCall(k, "description", description),
                                 WriteDocument(k, d) >>]

\* AIProductGenerator.generate_notion_template: the document carries 'name'
\* and 'description', and no 'title'.
GenerateNotionTemplate(k, response, tags) ==
    IF response # "ok"
    THEN [res |-> "null", written |-> << >>,
          events |-> << ServiceCall(k, "template", response) >>]
    ELSE LET d == Package("notion_template", "absent", "template.description",
                          tags, CalculatePrice("notion_template", 1), << >>)
         IN  [res |-> "document", written |-> << d >>,
              events |-> << ServiceCall(k, "template", response),
                            WriteDocument(k, d) >>]

\* AIProductGenerator.generate_planner_template: 'name' and 'description',
\* and no 'title'.
GeneratePlannerTemplate(k, response, tags) ==
    IF response # "ok"
    THEN [res |-> "null", written |-> << >>,
          events |-> << ServiceCall(k, "planner", response) >>]
    ELSE LET d == Package("digital_planner", "absent", "planner.description",
                          tags, CalculatePrice("planner", 1), << >>)
         IN  [res |-> "document", written |-> << d >>,
              events |-> << ServiceCall(k, "planner", response),
                            WriteDocument(k, d) >>]

\* AIProductGenerator.generate_email_templates: a failed request drops that
\* template and the loop goes on; the document is written and returned
\* whatever the number of templates, and carries neither 'title' nor
\* 'description'.
GenerateEmailTemplates(k, responses, tags) ==
    LET templates == SelectSeq(responses, LAMBDA r : r = "ok")
        d == Package("email_templates", "absent", "absent", tags,
                     CalculatePrice("email_templates", Len(templates)),
                     [i \in 1..Len(templates) |-> "ok"])
    IN  [res |-> "document", written |-> << d >>,
         events |-> ServiceCalls(k, "email", responses)
                      \o << WriteDocument(k, d) >>]

\* The target (position in DailyTargets) attempt k belongs to, and the
\* attempt's number i within that target; k and i count from 0.
RECURSIVE TargetOf(_, _)
TargetOf(k, n) ==
    IF k < TargetsUpTo(n) THEN n ELSE TargetOf(k, n + 1)

NumberInTarget(k) == k - TargetsUpTo(TargetOf(k, 1) - 1)

StartGenerate ==
    /\ pc = "idle"
    /\ pc' = "generating"
    /\ runs' = runs + 1
    /\ trace' = << >>
    /\ idx' = 0
    /\ generated_count' = 0
    /\ UNCHANGED <<store_exists, store, listings, files, log, json_files,
                   products, results, config, credentials, report, now>>

\* The generator's call of attempt k with niche number niche (from 0): what
\* the generators may return, over the answers of the service.
GeneratorResults(k, niche) ==
    LET product_type == DailyTargets[TargetOf(k, 1)].type
        i == NumberInTarget(k)
        topic == ProfitableNiches[niche + 1].topic
        category == ProfitableNiches[niche + 1].category
    IN  CASE product_type = "ebooks" ->
               { GenerateEbook(k, topic, outline, chapters, description, tags) :
                   outline \in JsonResponses, chapters \in ChapterResponses,
                   description \in TextResponses, tags \in GenerateTags(topic) }
          [] product_type = "templates" ->
               { GenerateNotionTemplate(k, response, tags) :
                   response \in JsonResponses,
                   tags \in GenerateTags(
                       TemplateTypes[(i % Len(TemplateTypes)) + 1] \o topic) }
          [] product_type = "planners" ->
               { GeneratePlannerTemplate(k, response, tags) :
                   response \in JsonResponses,
                   tags \in GenerateTags(
                       << category, "planner", Periods[(i % Len(Periods)) + 1] >>) }
          [] product_type = "email_templates" ->
               { GenerateEmailTemplates(k, responses, tags) :
                   responses \in EmailResponses,
                   tags \in GenerateTags(<< "email", "templates", category >>) }

\* One pass of the inner loop of _generate_daily_products (lines 133-158):
\* the niche is the one numbered generated_count modulo the number of
\* niches, and generated_count goes up only when the generator returned a
\* document.
GenerateStep ==
    /\ pc = "generating"
    /\ idx < DailyQuota
    /\ LET niche == generated_count % Len(ProfitableNiches)
       IN  \E g \in GeneratorResults(idx, niche) :
             /\ store' = store \o g.written
             /\ trace' = trace \o g.events
                  \o << Ev("generate", idx, niche, NumberInTarget(idx), g.res),
                        Sleep(GenerationDelay) >>
             /\ generated_count' =
                  IF g.res = "document" THEN generated_count + 1
                  ELSE generated_count
    /\ idx' = idx + 1
    /\ UNCHANGED <<store_exists, listings, files, log, pc, json_files,
                   products, results, runs, config, credentials, report, now>>

\* Faulty variant: the number of attempts is returned.
FinishGenerateCountingAttempts ==
    /\ pc = "generating"
    /\ idx = DailyQuota
    /\ pc' = "idle"
    /\ trace' = Append(trace,
           Ev("_generate_daily_products", 0, idx, 0, "returned"))
    /\ UNCHANGED <<store_exists, store, listings, files, log, json_files,
                   products, idx, results, runs, generated_count, config,
                   credentials, report, now>>

\* Line 161: return generated_count.
FinishGenerate ==
    /\ pc = "generating"
    /\ idx = DailyQuota
    /\ pc' = "idle"
    /\ trace' = Append(trace,
           Ev("_generate_daily_products", 0, generated_count, 0, "returned"))
    /\ UNCHANGED <<store_exists, store, listings, files, log, json_files,
                   products, idx, results, runs, generated_count, config,
                   credentials, report, now>>

InitGenerate ==
    /\ InitProgram
    /\ InitOrchestrator
    /\ store_exists = TRUE
    /\ store = << >>
    /\ listings = << >>

NextGenerate ==
    \/ runs = 0 /\ StartGenerate
    \/ GenerateStep
    \/ FinishGenerate

SpecGenerate == InitGenerate /\ [][NextGenerate]_vars

\* WhopIntegration._format_for_whop_api, lines 262-263: the title and the
\* description of the listing made from a generated document.
FormatTitle(d) ==
    IF d.title = "absent" THEN "Untitled Product" ELSE d.title

FormatDescription(d) ==
    IF d.description = "absent"
    THEN "Professional digital product with PLR/MRR rights"
    ELSE d.description

\* The attempts made so far (positions of the generators' returns), and the
\* requests of attempt k.
Attempts == { p \in Positions : trace[p].op = "generate" }

FailedRequests(k) ==
    { p \in Positions :
        /\ trace[p].op = "openai"
        /\ trace[p].key = k
        /\ trace[p].res # "ok" }

DocumentsWritten(k) ==
    { p \in Positions : trace[p].op = "write_document" /\ trace[p].key = k }

ProductTypes ==
    { "ebook", "notion_template", "digital_planner", "email_templates" }

\* ---------------------------------------------------------------------
\* main (lines 346-381): the credential check, the menu and the operation
\* chosen.  The daily cycle of choice 1 is the one of SpecDaily.

CredentialValues == { "set", "empty", "unset" }

Choices == { "1", "2", "3", "4", "other" }

MainFrame ==
    UNCHANGED <<store_exists, store, listings, files, log, json_files,
                products, idx, results, config, credentials, report, now>>

\* The menu is offered unless both credentials are missing.
MainStartLenient ==
    /\ pc = "idle"
    /\ runs = 0
    /\ runs' = 1
    /\ IF credentials.api_key # "set" /\ credentials.company_id # "set"
         THEN /\ trace' = << Ev("print", 0, 0, 0,
                                "Missing WHOP API credentials!") >>
              /\ pc' = "exited"
         ELSE /\ trace' = << Ev("print", 0, 0, 0, "Choose an option:") >>
              /\ pc' = "menu"
    /\ UNCHANGED generated_count
    /\ MainFrame

\* Lines 353-366: the launcher is constructed, and main returns after the
\* message when the API key or the company id is None or empty.
MainStart ==
    /\ pc = "idle"
    /\ runs = 0
    /\ runs' = 1
    /\ IF credentials.api_key # "set" \/ credentials.company_id # "set"
         THEN /\ trace' = << Ev("print", 0, 0, 0,
                                "Missing WHOP API credentials!") >>
              /\ pc' = "exited"
         ELSE /\ trace' = << Ev("print", 0, 0, 0, "Choose an option:") >>
              /\ pc' = "menu"
    /\ UNCHANGED generated_count
    /\ MainFrame

\* Lines 368-381: the choice is read and the operation chosen is run.
MainChoose ==
    /\ pc = "menu"
    /\ \E choice \in Choices :
         CASE choice = "1" ->
                /\ trace' = Append(trace, Ev("input", 0, 0, 0, choice))
                /\ pc' = "daily_generate"
                /\ generated_count' = 0
           [] choice = "2" ->
                /\ trace' = trace \o
                     << Ev("input", 0, 0, 0, choice),
                        Ev("run_continuous", 0, 0, 0, "") >>
                /\ pc' = "run_pending"
                /\ UNCHANGED generated_count
           [] choice = "3" ->
                /\ \E res \in { "webhook", "null" } :
                     trace' = trace \o
                       << Ev("input", 0, 0, 0, choice),
                          Ev("setup_webhook", 0, 0, 0, res) >>
                /\ pc' = "returned"
                /\ UNCHANGED generated_count
           [] choice = "4" ->
                /\ \E res \in { "summary", "error" } :
                     trace' = trace \o
                       << Ev("input", 0, 0, 0, choice),
                          Ev("get_performance_summary", 0, 0, 0, res) >>
                /\ pc' = "returned"
                /\ UNCHANGED generated_count
           [] OTHER ->
                /\ trace' = trace \o
                     << Ev("input", 0, 0, 0, choice),
                        Ev("print", 0, 0, 0, "Invalid choice") >>
                /\ pc' = "returned"
                /\ UNCHANGED generated_count
    /\ UNCHANGED runs
    /\ MainFrame

InitMain ==
    /\ InitProgram
    /\ store_exists = TRUE
    /\ store = << >>
    /\ listings = << >>
    /\ config = LoadConfig(<< >>)
    /\ credentials \in [{ "api_key", "company_id" } -> CredentialValues]
    /\ generated_count = 0
    /\ report = NoReport
    /\ now = 0

NextMain ==
    \/ MainStart
    \/ MainChoose
    \/ DailyGenerate
    \/ DailyUpload
    \/ DailyOptimize
    \/ DailyReport
    \/ RunPending
    \/ PollSleep
    \/ CooldownSleep
    \/ Interrupt

SpecMain == InitMain /\ [][NextMain]_vars

CredentialsMissing ==
    credentials.api_key # "set" \/ credentials.company_id # "set"

\* The calls that do the system's work.
WorkCalls ==
    { "_generate_daily_products", "_upload_pending_products",
      "_optimize_product_prices", "_generate_daily_report", "run_continuous",
      "schedule.run_pending", "setup_webhook", "get_performance_summary" }

\* ---------------------------------------------------------------------
\* AutoLauncher._generate_daily_report.  Python's / is real division: a
\* quotient is kept here as the pair <<numerator, denominator>>, so that
\* quotients are compared exactly (the rounding of the floating-point
\* quotient is not modelled).

Quotient(a, b) == << a, b >>

QuotientOver(q, n) == << q[1], q[2] * n >>

SameQuotient(p, q) == p[1] * q[2] = q[1] * p[2]

\* Line 215: the products the report covers.
AutoGenerated(ps) == SelectSeq(ps, LAMBDA p : p.auto_generated)

StartReport ==
    /\ pc = "idle"
    /\ runs' = runs + 1
    /\ pc' = "report"
    /\ \E resp \in { "200", "500" } :
         /\ products' = IF resp = "200" THEN AutoGenerated(listings) ELSE << >>
         /\ trace' = << Ev("list_products", 0, 0, 0, resp) >>
    /\ idx' = 1
    /\ UNCHANGED <<store_exists, store, listings, files, log, json_files,
                   results, orchestrator>>

\* Lines 222-226: the analytics of one product are fetched and, when they
\* came, its purchases and its revenue are added to the totals.
ReportStep ==
    /\ pc = "report"
    /\ idx <= Len(products)
    /\ \E fetch \in { "200", "500" } :
         LET l == listings[products[idx].id]
         IN  trace' = Append(trace,
                 Ev("get_product_analytics", l.id,
                    IF fetch = "200" THEN l.purchases ELSE 0,
                    IF fetch = "200" THEN l.revenue ELSE 0, fetch))
    /\ idx' = idx + 1
    /\ UNCHANGED <<store_exists, store, listings, files, log, pc, json_files,
                   products, results, runs, orchestrator>>

\* The totals of the loop: the sums over the analytics that came.
RECURSIVE TotalSales(_, _)
TotalSales(events, n) ==
    IF n = 0 THEN 0
    ELSE TotalSales(events, n - 1)
           + (IF events[n].op = "get_product_analytics" /\ events[n].res = "200"
                THEN events[n].val ELSE 0)

RECURSIVE TotalRevenue(_, _)
TotalRevenue(events, n) ==
    IF n = 0 THEN 0
    ELSE TotalRevenue(events, n - 1)
           + (IF events[n].op = "get_product_analytics" /\ events[n].res = "200"
                THEN events[n].aux ELSE 0)

\* Line 233: total_revenue / 100 if total_revenue else 0.
ReportedRevenue(total_revenue) ==
    IF total_revenue # 0 THEN Quotient(total_revenue, CentsPerUnit)
    ELSE Quotient(0, 1)

\* The average is left in minor units.
AveragePriceUnconverted(total_revenue, total_sales) ==
    IF total_sales # 0 THEN Quotient(total_revenue, total_sales)
    ELSE Quotient(0, 1)

\* Line 234: (total_revenue / total_sales / 100) if total_sales else 0.
AveragePrice(total_revenue, total_sales) ==
    IF total_sales # 0
    THEN QuotientOver(Quotient(total_revenue, total_sales), CentsPerUnit)
    ELSE Quotient(0, 1)

\* Lines 229-245: the report is built and saved; when saving fails the
\* failure is logged and no report is written.
FinishReport ==
    /\ pc = "report"
    /\ idx > Len(products)
    /\ pc' = "idle"
    /\ \E saved \in BOOLEAN :
         LET total_sales == TotalSales(trace, Len(trace))
             total_revenue == TotalRevenue(trace, Len(trace))
         IN  IF saved
             THEN /\ report' = [written |-> TRUE,
                                total_products |-> Len(products),
                                total_sales |-> total_sales,
                                total_revenue |-> ReportedRevenue(total_revenue),
                                average_price |->
                                    AveragePrice(total_revenue, total_sales)]
                  /\ trace' = Append(trace,
                         Ev("write_report", 0, 0, 0, "saved"))
             ELSE /\ report' = report
                  /\ trace' = Append(trace,
                         Ev("logger.error", 0, 0, 0, "Report generation failed"))
    /\ UNCHANGED <<store_exists, store, listings, files, log, json_files,
                   products, idx, results, runs, config, credentials,
                   generated_count, now>>

\* The account the report is made for: sales and revenue of each listing.
SalesSet == { <<0, 0>>, <<3, 1>>, <<3, 8991>>, <<1, 2997>>, <<7, 0>> }

ReportListings ==
    { [Listing(0, 2997, auto, TRUE, 0, a[1]) EXCEPT !.revenue = a[2]] :
        auto \in BOOLEAN, a \in SalesSet }

InitReport ==
    /\ InitProgram
    /\ InitOrchestrator
    /\ store_exists = TRUE
    /\ store = << >>
    /\ \E ls \in SeqsUpTo(ReportListings, MaxListings) : listings = Numbered(ls)

NextReport ==
    \/ runs = 0 /\ StartReport
    \/ ReportStep
    \/ FinishReport

SpecReport == InitReport /\ [][NextReport]_vars

\* The listings whose analytics came during the report.
Reported ==
    { k \in Positions :
        trace[k].op = "get_product_analytics" /\ trace[k].res = "200" }

RECURSIVE SumOver(_, _)
SumOver(S, f) ==
    IF S = { } THEN 0
    ELSE LET x == CHOOSE y \in S : TRUE
         IN  f[x] + SumOver(S \ { x }, f)

\* ---------------------------------------------------------------------
\* BatchUploader._create_ebook_files and the three renderers.  A rendered
\* file is the sequence of its blocks (title, table of contents, headings,
\* contents, footer), in the order the renderer emits them.

MaxChapters == 3

\* A chapter as the document holds it; content is "absent" when the chapter
\* has no 'content' key.
Chapter(title, content) == [title |-> title, content |-> content]

ChapterSet ==
    { Chapter("Basics", "text a"), Chapter("Basics", "text b"),
      Chapter("Growth", "text a"), Chapter("Growth", "absent") }

EbookDoc(title, subtitle, chapters) ==
    [readable |-> TRUE, type |-> "ebook", price_kind |-> "int",
     suggested_price |-> CalculatePrice("ebook", Len(chapters)),
     parts |-> [i \in 1..Len(chapters) |->
                  IF chapters[i].content = "absent" THEN "no_content"
                  ELSE "ok"],
     title |-> title, subtitle |-> subtitle, chapters |-> chapters]

Block(kind, number, text) == [kind |-> kind, number |-> number, text |-> text]

\* The renderers read chapter['content'] of every chapter: one chapter
\* without the key makes the renderer raise KeyError.
RenderRaises(d) ==
    \E i \in 1..Len(d.chapters) : d.chapters[i].content = "absent"

RECURSIVE Flatten(_)
Flatten(seqs) ==
    IF seqs = << >> THEN << >> ELSE Head(seqs) \o Flatten(Tail(seqs))

Subtitle(d) ==
    IF d.subtitle # "" THEN << Block("subtitle", 0, d.subtitle) >> ELSE << >>

\* enumerate(chapters) with "Chapter {i+1}: {title}" (here i counts from 1).
TocEntries(chapters) ==
    [i \in 1..Len(chapters) |-> Block("toc_entry", i, chapters[i].title)]

\* _generate_ebook_html (lines 438-486).
GenerateEbookHtml(d) ==
    << Block("title", 0, d.title) >> \o Subtitle(d)
      \o << Block("toc_heading", 0, "Table of Contents") >>
      \o TocEntries(d.chapters)
      \o Flatten([i \in 1..Len(d.chapters) |->
            << Block("chapter_heading", i, d.chapters[i].title),
               Block("chapter_content", 0, d.chapters[i].content) >>])
      \o << Block("footer", 0, "PLR") >>

\* The headings are numbered from 0.
TextChaptersFromZero(chapters) ==
    Flatten([i \in 1..Len(chapters) |->
        << Block("chapter_heading", i - 1, chapters[i].title),
           Block("underline", 0, "-"),
           Block("chapter_content", 0, chapters[i].content) >>])

\* _generate_ebook_text, lines 506-509: heading, underline and content of
\* each chapter.
TextChapters(chapters) ==
    Flatten([i \in 1..Len(chapters) |->
        << Block("chapter_heading", i, chapters[i].title),
           Block("underline", 0, "-"),
           Block("chapter_content", 0, chapters[i].content) >>])

\* _generate_ebook_text (lines 488-517).
GenerateEbookText(d) ==
    << Block("title", 0, d.title), Block("underline", 0, "=") >>
      \o Subtitle(d)
      \o << Block("toc_heading", 0, "TABLE OF CONTENTS"),
            Block("underline", 0, "-") >>
      \o TocEntries(d.chapters)
      \o TextChapters(d.chapters)
      \o << Block("underline", 0, "="), Block("footer", 0, "PLR") >>

\* _generate_ebook_markdown (lines 519-547).
GenerateEbookMarkdown(d) ==
    << Block("title", 0, d.title) >> \o Subtitle(d)
      \o << Block("toc_heading", 0, "Table of Contents") >>
      \o TocEntries(d.chapters)
      \o << Block("rule", 0, "---") >>
      \o Flatten([i \in 1..Len(d.chapters) |->
            << Block("chapter_heading", i, d.chapters[i].title),
               Block("chapter_content", 0, d.chapters[i].content) >>])
      \o << Block("rule", 0, "---"), Block("footer", 0, "PLR") >>

RenderFrame ==
    UNCHANGED <<store_exists, store, listings, files, log, json_files,
                products, idx, results, orchestrator>>

\* A rendered file written under output/<id>/.
Rendered(name, blocks) == Ev("render", 1, blocks, 0, name)

\* _create_ebook_files, lines 412-422: the HTML version is generated and
\* saved first; when the renderer raises nothing is written and the
\* exception leaves _create_ebook_files.
CreateEbookHtml ==
    /\ pc = "idle"
    /\ runs = 0
    /\ runs' = 1
    /\ IF RenderRaises(store[1])
         THEN /\ trace' = << Ev("_create_ebook_files", 1, 0, 0, "raised") >>
              /\ pc' = "idle"
         ELSE /\ trace' = << Rendered("ebook.html", GenerateEbookHtml(store[1])) >>
              /\ pc' = "ebook_text"
    /\ RenderFrame

\* Lines 424-428: the text version.
CreateEbookText ==
    /\ pc = "ebook_text"
    /\ trace' = Append(trace, Rendered("ebook.txt", GenerateEbookText(store[1])))
    /\ pc' = "ebook_markdown"
    /\ UNCHANGED runs
    /\ RenderFrame

\* Lines 430-436: the Markdown version.
CreateEbookMarkdown ==
    /\ pc = "ebook_markdown"
    /\ trace' = trace \o
         << Rendered("ebook.md", GenerateEbookMarkdown(store[1])),
            Ev("_create_ebook_files", 1, 0, 0, "returned") >>
    /\ pc' = "idle"
    /\ UNCHANGED runs
    /\ RenderFrame

InitRender ==
    /\ InitProgram
    /\ InitOrchestrator
    /\ store_exists = TRUE
    /\ listings = << >>
    /\ \E title \in { "Guide" }, subtitle \in { "", "For beginners" },
          chapters \in SeqsUpTo(ChapterSet, MaxChapters) :
         store = << EbookDoc(title, subtitle, chapters) >>

NextRender ==
    \/ CreateEbookHtml
    \/ CreateEbookText
    \/ CreateEbookMarkdown

SpecRender == InitRender /\ [][NextRender]_vars

\* The blocks of one kind of a rendered file, in order, and where they are.
BlocksOf(blocks, kind) == SelectSeq(blocks, LAMBDA b : b.kind = kind)

PlacesOf(blocks, kind) ==
    { j \in 1..Len(blocks) : blocks[j].kind = kind }

RenderedFiles == { k \in Positions : trace[k].op = "render" }

\* The content that follows heading j of a rendered file, before the
\* next heading.
ContentAfter(blocks, j) ==
    LET later == { m \in PlacesOf(blocks, "chapter_content") : m > j }
        next == { m \in PlacesOf(blocks, "chapter_heading") : m > j }
    IN  { m \in later : \A h \in next : m < h }

\* ---------------------------------------------------------------------
\* One create_product call on a document of any type: the request the
\* client formats (_format_for_whop_api, _get_category) and sends.

\* The 'type' key of a document: a type string, "absent" when the key is
\* missing, "null" when it is JSON null.
TypeSet ==
    { "ebook", "notion_template", "digital_planner", "email_templates",
      "course", "membership", "video", "absent", "null" }

\* Line 258: product_data.get('type', 'digital_product').
ProductType(d) == IF d.type = "absent" THEN "digital_product" ELSE d.type

\* The type is sent as the category when the table does not hold it.
GetCategoryUnmapped(product_type) ==
    CASE product_type = "ebook" -> "education"
      [] product_type = "notion_template" -> "productivity"
      [] product_type = "digital_planner" -> "productivity"
      [] product_type = "email_templates" -> "marketing"
      [] product_type = "course" -> "education"
      [] product_type = "membership" -> "community"
      [] OTHER -> product_type

\* WhopIntegration._get_category: category_mapping.get(product_type, 'other').
GetCategory(product_type) ==
    CASE product_type = "ebook" -> "education"
      [] product_type = "notion_template" -> "productivity"
      [] product_type = "digital_planner" -> "productivity"
      [] product_type = "email_templates" -> "marketing"
      [] product_type = "course" -> "education"
      [] product_type = "membership" -> "community"
      [] OTHER -> "other"

\* The category is computed at line 268, after the price at line 264: a
\* document whose price makes the formatting raise never reaches it.
CategoryEvents(d, key) ==
    IF FormatRaises(d) THEN << >>
    ELSE << Ev("_get_category", key, 0, ProductType(d),
               GetCategory(ProductType(d))) >>

CreateProductCall ==
    /\ pc = "idle"
    /\ runs = 0
    /\ runs' = 1
    /\ \E resp \in HttpResponses :
         LET category == CategoryEvents(store[1], 1)
             c == CreateProduct(store[1], 1, resp, Len(listings) + 1,
                                Len(category) + 1)
         IN  /\ trace' = category \o c.events
             /\ log' = log \o c.entries
             /\ listings' = listings \o c.created
    /\ UNCHANGED <<store_exists, store, files, pc, json_files, products, idx,
                   results, orchestrator>>

CreateDocs ==
    { Doc(TRUE, t, "int", p, << >>) : t \in TypeSet, p \in { 0, 10 } }
    \cup { Doc(TRUE, t, k, 0, << >>) : t \in TypeSet, k \in { "absent", "null" } }

InitCreate ==
    /\ InitProgram
    /\ InitOrchestrator
    /\ store_exists = TRUE
    /\ listings = << >>
    /\ \E d \in CreateDocs : store = << d >>

NextCreate == CreateProductCall

SpecCreate == InitCreate /\ [][NextCreate]_vars

CategoryCalls == { k \in Positions : trace[k].op = "_get_category" }

\* ---------------------------------------------------------------------
\* The Batch Uploader run again and again over the same store, as the
\* upload job of run_continuous does (auto_launcher.py lines 260-261).

ReuploadStores ==
    { << >>,
      << Doc(TRUE, "notion_template", "int", 25, << >>) >>,
      << Doc(TRUE, "ebook", "int", 15, << "ok", "ok" >>),
         Doc(TRUE, "digital_planner", "int", 20, << >>) >>,
      << Doc(TRUE, "ebook", "int", 15, << "ok", "no_content" >>),
         Doc(TRUE, "email_templates", "int", 3, << "ok" >>) >>,
      << Doc(TRUE, "notion_template", "int", 25, << >>),
         Doc(FALSE, "absent", "absent", 0, << >>) >> }

InitReupload ==
    /\ InitProgram
    /\ InitOrchestrator
    /\ store_exists = TRUE
    /\ listings = << >>
    /\ store \in ReuploadStores

NextReupload ==
    \/ runs < MaxRuns /\ StartUpload /\ UNCHANGED orchestrator
    \/ UploadStep /\ UNCHANGED orchestrator
    \/ FinishUpload /\ UNCHANGED orchestrator

SpecReupload == InitReupload /\ [][NextReupload]_vars

\* The create_product calls logged so far, over all invocations.
CreateEntries(status) ==
    { e \in 1..Len(log) :
        log[e].action = "create_product" /\ log[e].status \in status }

ValidStore ==
    \A n \in 1..Len(store) : store[n].readable /\ ~FormatRaises(store[n])

\* ---------------------------------------------------------------------
\* The mini generation cycle (auto_launcher.py, lines 280-299), scheduled
\* every two hours by run_continuous (lines 254-255).

\* schedule.every(2).hours: the hours between two runs of the mini cycle.
MiniInterval == 2

\* The hours of the day at which the launcher is started.
StartHours == { 6, 7 }

\* The generator the mini cycle calls at a given hour, with every outcome the
\* text service allows: generate_ebook on an even hour, otherwise
\* generate_notion_template('productivity template', topic); the niche is the
\* one numbered by the hour modulo the number of niches.
MiniResults(hour) ==
    LET topic == ProfitableNiches[(hour % Len(ProfitableNiches)) + 1].topic
    IN  IF hour % 2 = 0
        THEN { [kind |-> "generate_ebook", out |->
                  GenerateEbook(0, topic, outline, chapters, description, tags)] :
                 outline \in JsonResponses, chapters \in ChapterResponses,
                 description \in TextResponses, tags \in GenerateTags(topic) }
        ELSE { [kind |-> "generate_notion_template", out |->
                  GenerateNotionTemplate(0, response, tags)] :
                 response \in JsonResponses,
                 tags \in GenerateTags(<< "productivity", "template" >> \o topic) }

\* One run of _mini_generation_cycle: a single generator call; the last event
\* of the run names the hour, the niche and the generator called.
MiniGenerationCycle ==
    /\ pc = "idle"
    /\ runs < MaxRuns
    /\ \E g \in MiniResults(now) :
         /\ store' = store \o g.out.written
         /\ trace' = << Ev("logger.info", 0, 0, 0, "Running mini generation cycle") >>
                \o g.out.events
                \o << Ev("_mini_generation_cycle", runs + 1,
                         now % Len(ProfitableNiches), now, g.kind) >>
    /\ runs' = runs + 1
    /\ pc' = "mini_waiting"
    /\ UNCHANGED <<store_exists, listings, files, log, json_files, products,
                   idx, results, orchestrator>>

\* The wait until the job is due again: the next run is set MiniInterval
\* hours after the last one ended and is started by the next run_pending, so
\* the hour of the next run is MiniInterval later, or one more when the run
\* and the polling carried the clock over the hour.
MiniWait ==
    /\ pc = "mini_waiting"
    /\ \E late \in { 0, 1 } : now' = (now + MiniInterval + late) % 24
    /\ pc' = "idle"
    /\ UNCHANGED <<store_exists, store, listings, files, log, json_files,
                   products, idx, results, trace, runs, config, credentials,
                   generated_count, report>>

InitMini ==
    /\ InitProgram
    /\ config = LoadConfig(<< >>)
    /\ credentials = [api_key |-> "set", company_id |-> "set"]
    /\ generated_count = 0
    /\ report = NoReport
    /\ now \in StartHours
    /\ store_exists = TRUE
    /\ store = << >>
    /\ listings = << >>

NextMini == MiniGenerationCycle \/ MiniWait

SpecMini == InitMini /\ [][NextMini]_vars

\* The generator called by the run a trace belongs to.
MiniKind(t) == t[Len(t)].res

\* ---------------------------------------------------------------------
\* Repeated runs of _optimize_product_prices over an account whose
\* analytics stay as they are: every listing is auto_generated, its counters
\* match the reduce rule (150 views, 2 purchases), the increase rule (60
\* views, 15 purchases) or none (10 views, 1 purchase).
RepriceAccounts ==
    { Numbered(ls) : ls \in
        { << Listing(0, 1, TRUE, TRUE, 150, 2) >>,
          << Listing(0, 2, TRUE, TRUE, 150, 2),
             Listing(0, 4, TRUE, TRUE, 60, 15) >>,
          << Listing(0, 0, TRUE, TRUE, 150, 2),
             Listing(0, 1000, TRUE, TRUE, 60, 15) >>,
          << Listing(0, 1000, TRUE, FALSE, 150, 2),
             Listing(0, 1, TRUE, TRUE, 150, 2) >>,
          << Listing(0, 5, TRUE, TRUE, 60, 15),
             Listing(0, 3, TRUE, TRUE, 10, 1) >> } }

InitReprice ==
    /\ store_exists = TRUE
    /\ store = << >>
    /\ listings \in RepriceAccounts
    /\ InitProgram
    /\ InitOrchestrator

NextReprice ==
    \/ runs < MaxRuns /\ StartOptimize /\ UNCHANGED orchestrator
    \/ OptimizeStep /\ UNCHANGED orchestrator
    \/ FinishOptimize /\ UNCHANGED orchestrator

SpecReprice == InitReprice /\ [][NextReprice]_vars

\* The price listing i had when the run began: the one list_products
\* returned, and when that call failed the one the marketplace holds, since
\* such a run changes nothing.
StartPrice(i) ==
    IF products = << >> THEN listings[i].price ELSE products[i].price

\* The run sent a price update for listing i that the marketplace accepted.
UpdateApplied(i) ==
    \E k \in Positions : /\ trace[k].op = "update_product_pricing"
                         /\ trace[k].key = listings[i].id
                         /\ trace[k].res = "200"

OptimizeReturned == pc = "idle" /\ runs >= 1

\* ---------------------------------------------------------------------
\* AutoLauncher.get_performance_summary (auto_launcher.py, lines 320-344).

\* auto_generated[:10] and min(10, len(auto_generated)): the size of the
\* sample.
SampleSize == 10

Sampled(ps) == IF Len(ps) < SampleSize THEN Len(ps) ELSE SampleSize

\* Faulty variant: with nothing to scale, a summary of zero totals is
\* returned.
PerformanceSummaryGuarded(total_products, total_sales, total_revenue, at) ==
    IF total_products = 0
    THEN [total_products |-> 0, estimated_sales |-> Quotient(0, 1),
          estimated_revenue |-> Quotient(0, 1), last_updated |-> at]
    ELSE [total_products |-> total_products,
          estimated_sales |->
              Quotient(total_sales * total_products,
                       IF total_products < SampleSize THEN total_products
                       ELSE SampleSize),
          estimated_revenue |->
              Quotient(total_revenue * total_products,
                       CentsPerUnit * (IF total_products < SampleSize
                                       THEN total_products ELSE SampleSize)),
          last_updated |-> at]

\* Lines 335-344: the record returned.  The scaling factor is
\* len(auto_generated) / min(10, len(auto_generated)); with no product the
\* division raises ZeroDivisionError, which the except clause turns into a
\* record holding the message alone.
PerformanceSummary(total_products, total_sales, total_revenue, at) ==
    LET sample == IF total_products < SampleSize THEN total_products
                  ELSE SampleSize
    IN  IF sample = 0
        THEN [error |-> "division by zero"]
        ELSE [total_products |-> total_products,
              estimated_sales |->
                  Quotient(total_sales * total_products, sample),
              estimated_revenue |->
                  Quotient(total_revenue * total_products,
                           CentsPerUnit * sample),
              last_updated |-> at]

\* Lines 323-324: list_products, [] when the call fails, and the filter.
StartSummary ==
    /\ pc = "idle"
    /\ runs' = runs + 1
    /\ pc' = "summary"
    /\ \E resp \in { "200", "500" } :
         /\ products' = IF resp = "200" THEN AutoGenerated(listings) ELSE << >>
         /\ trace' = << Ev("list_products", 0, 0, 0, resp) >>
    /\ idx' = 1
    /\ UNCHANGED <<store_exists, store, listings, files, log, json_files,
                   results, orchestrator>>

\* Lines 329-333: the analytics of one product of the sample.
SummaryStep ==
    /\ pc = "summary"
    /\ idx <= Sampled(products)
    /\ \E fetch \in { "200", "500" } :
         LET l == listings[products[idx].id]
         IN  trace' = Append(trace,
                 Ev("get_product_analytics", l.id,
                    IF fetch = "200" THEN l.purchases ELSE 0,
                    IF fetch = "200" THEN l.revenue ELSE 0, fetch))
    /\ idx' = idx + 1
    /\ UNCHANGED <<store_exists, store, listings, files, log, pc, json_files,
                   products, results, runs, orchestrator>>

\* Lines 335-344: the record is returned to the caller.
FinishSummary ==
    /\ pc = "summary"
    /\ idx > Sampled(products)
    /\ pc' = "idle"
    /\ trace' = Append(trace,
           Ev("get_performance_summary", 0,
              PerformanceSummary(Len(products), TotalSales(trace, Len(trace)),
                                 TotalRevenue(trace, Len(trace)), now),
              0, "returned"))
    /\ UNCHANGED <<store_exists, store, listings, files, log, json_files,
                   products, idx, results, runs, orchestrator>>

NextSummary ==
    \/ runs = 0 /\ StartSummary
    \/ SummaryStep
    \/ FinishSummary

SpecSummary == InitReport /\ [][NextSummary]_vars

SummaryReturned == pc = "idle" /\ runs = 1

SummaryRecord == trace[Len(trace)].val

SummaryFields ==
    { "total_products", "estimated_sales", "estimated_revenue", "last_updated" }

\* The stages of a cycle in their order, and the option that governs each.
StageOrder ==
    << "_generate_daily_products", "_upload_pending_products",
       "_optimize_product_prices", "_generate_daily_report" >>

StageEnabled(n) ==
    CASE n = 1 -> config["auto_generate"]
      [] n = 2 -> config["auto_upload"]
      [] n = 3 -> config["price_optimization"]
      [] n = 4 -> TRUE

StageRuns(n) == { k \in Positions : trace[k].op = StageOrder[n] }

CycleOver == pc = "idle" /\ runs > 0

\* The entries the running operation wrote to the action log for the call at
\* position k of the trace.
EntriesOf(action, at) ==
    { e \in 1..Len(log) :
        /\ log[e].run = runs
        /\ log[e].action = action
        /\ log[e].timestamp \in at }

\* C11: every create_product call and every update_product_pricing call,
\* whether it succeeds or fails, appends exactly one entry to the action log.
C11_EveryCallLogged ==
    \A k \in Positions :
      /\ trace[k].op = "create_product"
           => Cardinality(EntriesOf("create_product", { k - 1 })) = 1
      /\ trace[k].op = "update_product_pricing"
           => Cardinality(EntriesOf("update_price", { k })) = 1


\* C12: a daily cycle runs its stages in the order generate, upload,
\* optimise, report, each at most once, and a stage whose option is off makes
\* no call at all.
C12_StagesInOrderWhenEnabled ==
    /\ \A n \in 1..Len(StageOrder) :
         /\ Cardinality(StageRuns(n)) <= 1
         /\ StageRuns(n) # { } => StageEnabled(n)
    /\ \A m, n \in 1..Len(StageOrder) :
         \A j \in StageRuns(m), k \in StageRuns(n) : m < n => j < k
    /\ \A k \in Positions :
         trace[k].op \in { StageOrder[n] : n \in 1..Len(StageOrder) }
           \/ trace[k].op \in { "logger.error", "logger.info" }

\* A cycle that ran to its end with uploading switched off: generation,
\* optimisation and the report ran, in that order, and no upload was made.
C12_Witness ==
    /\ CycleOver
    /\ ~config["auto_upload"]
    /\ config["auto_generate"] /\ config["price_optimization"]
    /\ StageRuns(2) = { }
    /\ \E i \in StageRuns(1), j \in StageRuns(3), k \in StageRuns(4) :
         i < j /\ j < k

\* C13: when a stage of the cycle raises, the stages after it that are
\* switched on still run in the same cycle.
C13_FailedStageDoesNotBlock ==
    \A n \in 1..Len(StageOrder) :
      (CycleOver /\ \E k \in StageRuns(n) : trace[k].res \in { "raised", "failed" })
        => \A m \in (n + 1)..Len(StageOrder) :
             StageEnabled(m) => StageRuns(m) # { }



\* C14: without an external interruption run_continuous does not end, and an
\* exception that escapes a poll is logged, followed by the 300 s cooldown,
\* followed by the next poll.
C14_LoopSurvivesExceptions ==
    /\ LoopEnded => Interruptions # { }
    /\ \A k \in Positions :
         (trace[k].op = "schedule.run_pending" /\ trace[k].res = "raised")
           => /\ k + 1 \in Positions
              /\ trace[k + 1].op = "logger.error"
              /\ k + 2 \in Positions
                   => \/ IsEvent(k + 2, "sleep", Cooldown)
                      \/ k + 2 \in Interruptions
              /\ (k + 3 \in Positions /\ k + 2 \notin Interruptions)
                   => \/ IsEvent(k + 3, "schedule.run_pending", 0)
                      \/ k + 3 \in Interruptions
    /\ (pc = "cooldown" /\ Len(trace) > 0)
         => trace[Len(trace)].op = "logger.error"

\* A poll let an exception escape, the loop cooled down and polled again.
C14_Witness ==
    \E k \in Positions :
      /\ trace[k].op = "schedule.run_pending" /\ trace[k].res = "raised"
      /\ IsEvent(k + 2, "sleep", Cooldown)
      /\ IsEvent(k + 3, "schedule.run_pending", 0)
      /\ Interruptions = { }

\* C15: an interruption delivered while the poll loop is active, whether in
\* run_pending, in the poll sleep or in the cooldown, is caught: the stop
\* message is logged and run_continuous returns.
C15_InterruptionStopsCleanly ==
    \A k \in Interruptions :
      /\ pc = "returned"
      /\ IsEvent(k + 1, "logger.info", 0)
      /\ trace[k + 1].res = "Automation stopped by user"



\* C16: the k-th attempt of a generation (k from 0) uses niche k modulo the
\* number of niches, whatever the outcome of the attempts before it.
C16_NicheRoundRobin ==
    \A p \in Attempts :
      trace[p].val = trace[p].key % Len(ProfitableNiches)

\* C17: an attempt in which a request to the service failed writes no
\* document and returns null.
C17_FailedAttemptEmitsNothing ==
    \A p \in Attempts :
      FailedRequests(trace[p].key) # { }
        => /\ trace[p].res = "null"
           /\ DocumentsWritten(trace[p].key) = { }

\* C18: every document the generator wrote has one of the four types, a
\* title, a description, at most ten tags without duplicates and an integer
\* suggested_price, so that its listing bears its own title and description.
C18_DocumentsCarryCommonFields ==
    \A n \in 1..Len(store) :
      LET d == store[n]
      IN  /\ d.type \in ProductTypes
          /\ d.title # "absent"
          /\ d.description # "absent"
          /\ Len(d.tags) <= MaxTags
          /\ Cardinality(RangeOf(d.tags)) = Len(d.tags)
          /\ d.price_kind = "int"
          /\ d.suggested_price \in Nat
          /\ FormatTitle(d) = d.title
          /\ FormatDescription(d) = d.description



\* C19: when the API key or the company id is missing, main prints the
\* missing-credentials message and ends: the menu is not offered and no
\* generation, upload, price update, webhook registration or analytics query
\* is made.
C19_MissingCredentialsEndMain ==
    (CredentialsMissing /\ runs > 0)
      => /\ pc = "exited"
         /\ trace = << Ev("print", 0, 0, 0, "Missing WHOP API credentials!") >>
         /\ \A k \in Positions : trace[k].op \notin WorkCalls \cup { "input" }

\* main has ended on the message with the API key set and the company id
\* missing.
C19_Witness ==
    /\ pc = "exited"
    /\ credentials.api_key = "set"
    /\ credentials.company_id = "unset"
    /\ \E k \in Positions : trace[k].res = "Missing WHOP API credentials!"



C21_RenderedChapters ==
    \A k \in RenderedFiles :
      LET blocks == trace[k].val
          chapters == store[1].chapters
          headings == BlocksOf(blocks, "chapter_heading")
          toc == BlocksOf(blocks, "toc_entry")
          contents == BlocksOf(blocks, "chapter_content")
      IN  /\ Len(headings) = Len(chapters)
          /\ Len(toc) = Len(chapters)
          /\ Len(contents) = Len(chapters)
          /\ \A i \in 1..Len(chapters) :
               /\ headings[i].number = i
               /\ headings[i].text = chapters[i].title
               /\ toc[i].number = i
               /\ toc[i].text = chapters[i].title
               /\ contents[i].text = chapters[i].content
          /\ \A j \in PlacesOf(blocks, "toc_entry"),
                h \in PlacesOf(blocks, "chapter_heading") : j < h
          /\ \A j \in PlacesOf(blocks, "chapter_heading") :
               /\ Cardinality(ContentAfter(blocks, j)) = 1
               /\ \A m \in ContentAfter(blocks, j) :
                    blocks[m].text = chapters[blocks[j].number].content

\* The three formats of an ebook of three chapters, two of them with the
\* same title, have been written.
C21_Witness ==
    /\ Cardinality(RenderedFiles) = 3
    /\ Len(store[1].chapters) = 3
    /\ store[1].chapters[1].title = store[1].chapters[2].title
    /\ store[1].chapters[1].content # store[1].chapters[2].content

\* C22: the category mapping is total: ebook, notion_template,
\* digital_planner and email_templates each map to one category, and a type
\* the mapping does not know maps to 'other'; the mapping never raises.
C22_CategoryTotal ==
    /\ \A k \in CategoryCalls :
         LET t == trace[k].aux
             category == trace[k].res
         IN  /\ category \in { "education", "productivity", "marketing",
                               "community", "other" }
             /\ t = "ebook" => category = "education"
             /\ t \in { "notion_template", "digital_planner" }
                  => category = "productivity"
             /\ t = "email_templates" => category = "marketing"
             /\ t \in { "video", "digital_product", "null" }
                  => category = "other"
    /\ (runs > 0 /\ ~FormatRaises(store[1])) => CategoryCalls # { }

\* A document of a type the mapping does not know has been listed under
\* 'other'.
C22_Witness ==
    /\ store[1].type = "video"
    /\ \E k \in CategoryCalls : trace[k].aux = "video" /\ trace[k].res = "other"
    /\ Len(listings) = 1

\* C23: when a batch upload returns, every enumerated document has been
\* counted in exactly one of success and failed, and the products list has
\* one entry per document.
C23_EachDocumentCountedOnce ==
    UploadReturned
      => /\ results.success + results.failed = Len(json_files)
         /\ Len(results.products) = Len(json_files)
         /\ \A key \in 1..Len(json_files) :
              Cardinality({ n \in 1..Len(results.products) :
                              results.products[n].doc = key }) = 1

\* C24: between two consecutive create_product calls of one batch upload the
\* uploader sleeps for upload_delay, whatever happened to the earlier
\* document.
C24_DelayBetweenUploads ==
    \A j, k \in Positions :
      ( /\ j < k
        /\ trace[j].op = "create_product"
        /\ trace[k].op = "create_product"
        /\ \A m \in (j + 1)..(k - 1) : trace[m].op # "create_product" )
        => \E m \in (j + 1)..(k - 1) :
             trace[m].op = "sleep" /\ trace[m].val = UploadDelay

\* C25: the uploader leaves the store as it found it, and n invocations over
\* a store of K valid documents, every creation succeeding, have made n * K
\* create_product calls and left n * K listings.
C25_ReuploadDuplicates ==
    /\ runs > 0 => store = json_files
    /\ (pc = "idle" /\ ValidStore /\ CreateEntries({ "error" }) = { })
         => /\ Cardinality(CreateEntries({ "success", "error" }))
                 = runs * Len(store)
            /\ Len(listings) = runs * Len(store)

\* Two invocations over a store of two valid documents have left four
\* listings.
C25_Witness ==
    /\ pc = "idle"
    /\ runs = 2
    /\ Len(store) = 2
    /\ ValidStore
    /\ Len(listings) = 4

\* The attempts of the run that asked the service for the given step.
AttemptsAsking(step) ==
    { trace[p].key : p \in { q \in Positions :
                               trace[q].op = "openai" /\ trace[q].aux = step } }

\* C26: a daily generation makes 2 ebook, 3 template, 1 planner and 1 email
\* attempts in that order, whatever fails, and returns the number of
\* attempts that produced a product.
C26_FixedAttempts ==
    /\ \A p \in Attempts :
         trace[p].key = Cardinality({ q \in Attempts : q < p })
    /\ (pc = "idle" /\ runs > 0)
         => /\ Cardinality(Attempts) = 7
            /\ AttemptsAsking("outline") = { 0, 1 }
            /\ AttemptsAsking("template") = { 2, 3, 4 }
            /\ AttemptsAsking("planner") = { 5 }
            /\ AttemptsAsking("email") = { 6 }
            /\ \E r \in Positions :
                 /\ trace[r].op = "_generate_daily_products"
                 /\ trace[r].val \in 0..7
                 /\ trace[r].val =
                      Cardinality({ p \in Attempts : trace[p].res = "document" })
                 /\ trace[r].val = Len(store)

\* A daily generation has returned after its first attempt failed and a
\* later one produced a product.
C26_Witness ==
    /\ pc = "idle"
    /\ runs > 0
    /\ \E p, q \in Attempts :
         /\ trace[p].key = 0 /\ trace[p].res = "null"
         /\ trace[q].key = 3 /\ trace[q].res = "document"
    /\ \E p \in Attempts : trace[p].key = 1 /\ trace[p].res = "null"


\* C27: a run of the mini cycle writes at most one document, leaves the
\* daily cycle's count alone, and calls the other generator than the run
\* before it did.
C27_MiniAlternates ==
    [][ (pc = "idle" /\ pc' = "mini_waiting")
          => /\ Len(store') <= Len(store) + 1
             /\ generated_count' = generated_count
             /\ runs >= 1 => MiniKind(trace') # MiniKind(trace) ]_vars


\* C28 as stated: after every run of the optimizer each price is a natural
\* number, the price of a listing that matches the reduce rule is below the
\* one it had when the run began, or 0 when that was 0, and the price of a
\* listing that matches the increase rule is not below it.
C28_PriceFallsOnEveryRun ==
    OptimizeReturned =>
      \A i \in 1..Len(listings) :
        /\ listings[i].price \in Nat
        /\ ReduceApplies(listings[i].views, listings[i].purchases)
             => IF StartPrice(i) = 0 THEN listings[i].price = 0
                ELSE listings[i].price < StartPrice(i)
        /\ IncreaseApplies(listings[i].views, listings[i].purchases)
             => listings[i].price >= StartPrice(i)

\* C28, amended: after every run of the optimizer each price is a natural
\* number; a listing whose update the run sent and the marketplace accepted
\* has, under the reduce rule, a price below the one it had when the run
\* began, or 0 when that was 0, and under the increase rule a price not
\* below it; every other listing has the price it had.
C28_PriceFallsWhenUpdateApplied ==
    OptimizeReturned =>
      \A i \in 1..Len(listings) :
        /\ listings[i].price \in Nat
        /\ (UpdateApplied(i)
              /\ ReduceApplies(listings[i].views, listings[i].purchases))
             => IF StartPrice(i) = 0 THEN listings[i].price = 0
                ELSE listings[i].price < StartPrice(i)
        /\ (UpdateApplied(i)
              /\ IncreaseApplies(listings[i].views, listings[i].purchases))
             => listings[i].price >= StartPrice(i)
        /\ ~UpdateApplied(i) => listings[i].price = StartPrice(i)

\* Witness: a second run has ended in which a reduced price reached 0 from 1,
\* after a first run that had reduced it from 2.
C28_Witness ==
    /\ OptimizeReturned
    /\ runs = 2
    /\ \E i \in 1..Len(listings) :
         /\ UpdateApplied(i)
         /\ ReduceApplies(listings[i].views, listings[i].purchases)
         /\ StartPrice(i) = 1
         /\ listings[i].price = 0
         /\ \E k \in 1..Len(log) : log[k].action = "update_price" /\ log[k].run = 1


\* The body of the loop raised at product j: the product is marked
\* auto_generated and has no 'title', and its price update was sent.
RaisedAt(j) ==
    /\ products[j].auto_generated
    /\ ~products[j].has_title
    /\ Calls("update_product_pricing", products[j].id) # { }

\* C29: when the handling of a listing raised, _optimize_product_prices has
\* returned all the same, no listing later in the list had its analytics
\* fetched or its price updated, and every update accepted before is in
\* force at the marketplace.
C29_FailureEndsRun ==
    (runs = 1 /\ pc # "optimize") =>
      /\ pc = "idle"
      /\ \A j \in 1..Len(products) :
           RaisedAt(j) =>
             /\ \A i \in (j + 1)..Len(products) :
                  /\ Calls("get_product_analytics", products[i].id) = { }
                  /\ Calls("update_product_pricing", products[i].id) = { }
             /\ \A k \in PriceUpdates :
                  trace[k].res = "200"
                    => listings[trace[k].key].price = trace[k].val

\* Witness: the first of two listings has no title and its reduced price was
\* accepted; the second, which matches the reduce rule too, was left alone.
C29_Witness ==
    /\ runs = 1
    /\ pc = "idle"
    /\ Len(products) = 2
    /\ RaisedAt(1)
    /\ \E k \in PriceUpdates : trace[k].key = 1 /\ trace[k].res = "200"
    /\ listings[1].price = ReducedPrice(products[1].price)
    /\ products[2].auto_generated
    /\ ReduceApplies(listings[2].views, listings[2].purchases)
    /\ listings[2].price = products[2].price


\* C30 as stated: get_performance_summary returns a record; for an account
\* with no auto_generated listing the record holds the field 'error' alone,
\* and for an account with at least one it holds total_products,
\* estimated_sales, estimated_revenue and last_updated.
C30_ErrorOnlyWithoutListings ==
    SummaryReturned =>
      IF AutoGenerated(listings) = << >>
      THEN DOMAIN SummaryRecord = { "error" }
      ELSE DOMAIN SummaryRecord = SummaryFields

\* C30, amended: get_performance_summary returns a record; when
\* list_products gave no auto_generated listing, because the account has
\* none or because the call failed, the record holds the field 'error'
\* alone; when it gave at least one the record holds total_products, the
\* number of them, estimated_sales, estimated_revenue and last_updated.
C30_ErrorWhenNothingListed ==
    SummaryReturned =>
      IF products = << >>
      THEN DOMAIN SummaryRecord = { "error" }
      ELSE /\ DOMAIN SummaryRecord = SummaryFields
           /\ SummaryRecord.total_products = Len(products)
           /\ products = AutoGenerated(listings)

\* Witness: the account holds a listing made by hand and none that is
\* auto_generated, the listing call was answered, and the record returned
\* holds the error alone.
C30_Witness ==
    /\ SummaryReturned
    /\ listings # << >>
    /\ AutoGenerated(listings) = << >>
    /\ trace[1].res = "200"
    /\ DOMAIN SummaryRecord = { "error" }

====
